---- MODULE Spec2Model ----
(***************************************************************************)
(* Model of the Simple Task agent tools (agno_agent/real_mcp_tools.py and  *)
(* agno_agent/real_agent.py).                                              *)
(*                                                                         *)
(* call_mcp_tool writes a generated Node script to a temporary file, runs  *)
(* it with subprocess.run (timeout 30 s); the script spawns the MCP server,*)
(* writes one JSON-RPC request to its stdin, collects its stdout and, when *)
(* the server closes, scans the collected lines for a JSON line with a     *)
(* result.  Three processes take part: the Python caller, the script       *)
(* process ("wrapper") and the server process.                             *)
(***************************************************************************)
EXTENDS Integers, Sequences, FiniteSets, TLC

(***************************************************************************)
(* Bounds.                                                                 *)
(***************************************************************************)
MaxCalls == 2
MaxLines == 2
MaxErr == 1
MaxItems == 5
MaxTries == 2

(***************************************************************************)
(* JSON / Python / JS values as tagged tuples.  A string is a sequence of  *)
(* text fragments; JText(v) is the string that is the JSON text of v;      *)
(* JLines(ls) is the string made of the lines ls joined by line feeds.     *)
(* An object is the sequence of its <<key, value>> pairs in order.         *)
(***************************************************************************)
JNull == <<"null">>
JBool(b) == <<"bool", b>>
JNum(n) == <<"num", n>>
JStr(frags) == <<"str", frags>>
JText(v) == <<"jtext", v>>
JLines(ls) == <<"lines", ls>>
JArr(elems) == <<"arr", elems>>
JObj(pairs) == <<"obj", pairs>>
Undefined == <<"undefined">>

\* A Python int beyond 2^53, where not every integer is a JS number:
\* JBig(k) is 2^53 + k.  JNaN is float('nan').
JBig(k) == <<"big", k>>
JNaN == <<"nan">>

HasKey(v, k) ==
    /\ v[1] = "obj"
    /\ \E i \in 1..Len(v[2]) : v[2][i][1] = k

Lookup(v, k) ==
    IF HasKey(v, k)
    THEN v[2][CHOOSE i \in 1..Len(v[2]) : v[2][i][1] = k][2]
    ELSE Undefined

(***************************************************************************)
(* Inputs: what the server may print on a line of its stdout, and what it  *)
(* may write to stderr.                                                    *)
(***************************************************************************)
ResultA == JObj(<< <<"content", JArr(<< JObj(<< <<"text", JText(JObj(<< <<"items", JArr(<<>>)>>, <<"total_count", JNum(0)>> >>))>> >>) >>)>> >>)
ResultB == JObj(<< <<"items", JArr(<<>>)>> >>)
ResultValues == {JNull, JBool(FALSE), JNum(0), JStr(<<>>), ResultA, ResultB}

Response(x) == JObj(<< <<"jsonrpc", JStr(<<"2.0">>)>>, <<"id", JNum(1)>>, <<"result", x>> >>)
RpcError == JObj(<< <<"jsonrpc", JStr(<<"2.0">>)>>, <<"id", JNum(1)>>, <<"error", JStr(<<"bad">>)>> >>)

BlankLine == JStr(<<>>)
LogLine == JStr(<<"Simple Task MCP server running">>)
StdoutLines ==
    {BlankLine, LogLine, JText(JNull), JText(JNum(5)), JText(RpcError)}
        \cup {JText(Response(x)) : x \in ResultValues}
StderrChunks == {"boom"}
ExitCodes == {0, 1}

ToolNames == {"simpletask_get_tasks", "simpletask_list_projects"}
ParamValues == {JObj(<<>>), JObj(<< <<"limit", JNum(200)>>, <<"offset", JNum(0)>> >>)}

VARIABLES
    pc,        \* position of the Python caller: "idle", "tmp", "run"
    tool,      \* tool_name of the call in progress (or of the last call)
    params,    \* params of the call
    tmpFiles,  \* number of temporary script files that exist
    wrapper,   \* script process: "none", "started", "waiting", "exited", "killed"
    wcode,     \* return code of the script process
    wstdout,   \* what the script process printed on stdout
    wstderr,   \* what the script process printed on stderr (fragments)
    server,    \* server process: "none", "running", "nomodule", "exited"
    code,      \* exit code of the server process
    output,    \* the script's `output` buffer: the server's stdout lines
    errtext,   \* the chunks the server wrote to stderr
    stdin,     \* the events on the server's stdin: writes and the end
    scanned,   \* the close handler scanned `output` in this call
    ret,       \* value returned by the last call of call_mcp_tool
    calls,     \* number of calls of call_mcp_tool so far
    started,   \* number of OS processes started so far
    nproc,     \* number of OS processes started by the current call
    orphans    \* server processes of earlier calls that were left running

bvars == <<pc, tool, params, tmpFiles, wrapper, wcode, wstdout, wstderr, server,
           code, output, errtext, stdin, scanned, ret, calls, started, nproc,
           orphans>>

VARIABLES
    tpc,       \* position of the agent's tool function: "new" (no agent yet),
               \* "idle", "switch", "fetch", "list", "done"
    tproject,  \* project_name the agent's tool closures were created with
    tfun,      \* the tool function invoked
    targs,     \* the arguments the agent runtime passed to it
    tlog,      \* the bridge calls of this invocation: <<tool_name, params>>
    tswitch,   \* what the bridge returned to switch_project in this invocation
    tdata,     \* what the bridge returned to the last data-fetching call
    tout       \* outcome of the invocation: <<"return", v>> or <<"raise", e>>

tvars == <<tpc, tproject, tfun, targs, tlog, tswitch, tdata, tout>>

VARIABLES
    rpc,       \* position of a request on its way to the server: "idle",
               \* "script", "written", "parsed", "failed"
    rname,     \* tool_name passed to call_mcp_tool, by its fragments
    rargs,     \* params passed to call_mcp_tool
    rline,     \* the line the script wrote to the server's stdin
    rparsed    \* the value the server got from parsing that line

rvars == <<rpc, rname, rargs, rline, rparsed>>

VARIABLES
    mpc,       \* position of main: "start", "apikey" and "select" (waiting for
               \* input), "analysis", "done" (returned), "interrupted"
    mkey,      \* OPENAI_API_KEY is set in the environment
    mpath,     \* the MCP server path exists
    mfile,     \* what projects.json holds, or "unreadable"
    mprojects, \* projects of select_project
    mchoice,   \* the last line the user typed at the selection prompt
    mtries,    \* number of lines typed at the selection prompt
    mhow,      \* how select_project ended: "none" (it did not), "noprojects",
               \* "default", "chosen", "cancelled"
    mselected, \* selected_project of main
    magent,    \* project_name the agent was constructed with
    manalyses  \* number of calls of agent.print_analysis

mvars == <<mpc, mkey, mpath, mfile, mprojects, mchoice, mtries, mhow, mselected,
           magent, manalyses>>

vars == <<bvars, tvars, rvars, mvars>>

NoValue == <<"none">>

Init ==
    /\ pc = "idle"
    /\ tool = ""
    /\ params = NoValue
    /\ tmpFiles = 0
    /\ wrapper = "none"
    /\ wcode = 0
    /\ wstdout = NoValue
    /\ wstderr = <<>>
    /\ server = "none"
    /\ code = 0
    /\ output = <<>>
    /\ errtext = <<>>
    /\ stdin = <<>>
    /\ scanned = FALSE
    /\ ret = NoValue
    /\ calls = 0
    /\ started = 0
    /\ nproc = 0
    /\ orphans = 0
    /\ tpc = "new"
    /\ tproject = NoValue
    /\ tfun = ""
    /\ targs = <<>>
    /\ tlog = <<>>
    /\ tswitch = NoValue
    /\ tdata = NoValue
    /\ tout = NoValue
    /\ rpc = "idle"
    /\ rname = <<>>
    /\ rargs = NoValue
    /\ rline = NoValue
    /\ rparsed = NoValue
    /\ mpc = "start"
    /\ mkey = FALSE
    /\ mpath = FALSE
    /\ mfile = NoValue
    /\ mprojects = NoValue
    /\ mchoice = <<>>
    /\ mtries = 0
    /\ mhow = "none"
    /\ mselected = NoValue
    /\ magent = NoValue
    /\ manalyses = 0

(***************************************************************************)
(* The generated script (real_mcp_tools.py lines 29-77), run by Node.      *)
(***************************************************************************)
\* json.dumps(params), the text that line 42 puts into the script
PyJsonDumps(v) == JText(v)

\* the double nearest to 2^53 + k (doubles are 2 apart there; ties go to
\* the even mantissa)
RoundToDouble(k) ==
    IF k % 2 = 0 THEN k
    ELSE IF (k \div 2) % 2 = 0 THEN k - 1 ELSE k + 1

\* a JSON value as Node holds it: every number is a double
RECURSIVE JsNumbers(_)
JsNumbers(v) ==
    CASE v[1] = "big" -> JBig(RoundToDouble(v[2]))
      [] v[1] = "arr" -> JArr([i \in 1..Len(v[2]) |-> JsNumbers(v[2][i])])
      [] v[1] = "obj" ->
           JObj([i \in 1..Len(v[2]) |-> <<v[2][i][1], JsNumbers(v[2][i][2])>>])
      [] OTHER -> v

\* the pairs of an object literal that become properties of the object:
\* "__proto__": x sets the prototype instead
RECURSIVE OwnProperties(_)
OwnProperties(v) ==
    CASE v[1] = "arr" -> JArr([i \in 1..Len(v[2]) |-> OwnProperties(v[2][i])])
      [] v[1] = "obj" ->
           LET kept == SelectSeq(v[2], LAMBDA pair : pair[1] # "__proto__") IN
           JObj([i \in 1..Len(kept) |-> <<kept[i][1], OwnProperties(kept[i][2])>>])
      [] OTHER -> v

\* the value Node gives to the text of json.dumps read as a JS expression
JsLiteral(text) == OwnProperties(JsNumbers(text[2]))

\* the JS value of the literal '{tool_name}': the name is pasted between
\* single quotes, so a quote in it ends the literal and the script does
\* not parse
JsSingleQuoted(frags) ==
    IF \E i \in 1..Len(frags) : frags[i] = "'"
    THEN <<"SyntaxError">>
    ELSE JStr(frags)

\* the object `request` of lines 36-44, for a tool name given by its fragments
ScriptRequest(name, p) ==
    JObj(<< <<"jsonrpc", JStr(<<"2.0">>)>>, <<"id", JNum(1)>>,
            <<"method", JStr(<<"tools/call">>)>>,
            <<"params", JObj(<< <<"name", JsSingleQuoted(name)>>,
                                <<"arguments", JsLiteral(PyJsonDumps(p))>> >>)>> >>)

Request(t, p) == ScriptRequest(<<t>>, p)

\* what JSON.stringify writes for a JS value: NaN is written as null
RECURSIVE Stringified(_)
Stringified(v) ==
    CASE v[1] = "nan" -> JNull
      [] v[1] = "arr" -> JArr([i \in 1..Len(v[2]) |-> Stringified(v[2][i])])
      [] v[1] = "obj" ->
           JObj([i \in 1..Len(v[2]) |-> <<v[2][i][1], Stringified(v[2][i][2])>>])
      [] OTHER -> v

\* JSON.stringify(value)
JSONStringify(v) == JText(Stringified(v))

\* serverProcess.stdin.write(JSON.stringify(request) + '\n') and
\* serverProcess.stdin.end(), as the events on the server's stdin
StdinWrite(t, p) == <<"write", JSONStringify(Request(t, p)), "\n">>
StdinEnd == <<"end">>

Whitespace == {" ", "\t", "\r"}

\* line.trim() is the empty string
IsBlank(line) ==
    /\ line[1] = "str"
    /\ \A i \in 1..Len(line[2]) : line[2][i] \in Whitespace

\* output.split('\n').filter(line => line.trim())
FilterLines(out) == SelectSeq(out, LAMBDA l : ~IsBlank(l))

\* JSON.parse(line)
JSONParse(line) ==
    IF line[1] = "jtext" THEN <<"ok", line[2]>> ELSE <<"throw">>

\* parsed.result: a property read; it throws on null
ParsedResult(v) ==
    IF v[1] = "null" THEN <<"throw">> ELSE <<"ok", Lookup(v, "result")>>

\* JavaScript truthiness, as used by `if (parsed.result)`
Truthy(v) ==
    CASE v[1] = "undefined" -> FALSE
      [] v[1] = "null" -> FALSE
      [] v[1] = "bool" -> v[2]
      [] v[1] = "num" -> v[2] # 0
      [] v[1] = "str" -> v[2] # <<>>
      [] OTHER -> TRUE

\* the test that selects a line in the for loop
LineSelected(line) ==
    LET parsed == JSONParse(line) IN
    /\ parsed[1] = "ok"
    /\ ParsedResult(parsed[2])[1] = "ok"
    /\ Truthy(ParsedResult(parsed[2])[2])

\* for (const line of lines) { ... return; }
RECURSIVE ScanLines(_)
ScanLines(lines) ==
    IF lines = <<>> THEN <<"none">>
    ELSE IF LineSelected(Head(lines))
         THEN <<"found", ParsedResult(JSONParse(Head(lines))[2])[2]>>
         ELSE ScanLines(Tail(lines))

\* (mutant) the fallback reports the filtered lines instead of the buffer
RawOutputFiltered(out) == JLines(FilterLines(out))

\* raw_output of the fallback object
RawOutput(out) == JLines(out)

\* what the close handler prints with console.log
CloseHandler(out) ==
    LET s == ScanLines(FilterLines(out)) IN
    IF s[1] = "found"
    THEN JText(s[2])
    ELSE JText(JObj(<< <<"error", JStr(<<"No valid response found">>)>>,
                       <<"raw_output", RawOutput(out)>> >>))

\* console.error('MCP Error:', data.toString())
StderrEcho(chunk) == <<"MCP Error: ", chunk, "\n">>

(***************************************************************************)
(* The Python side of call_mcp_tool (lines 79-107).                        *)
(***************************************************************************)
\* json.loads(result.stdout)
PyLoads(text) ==
    IF text[1] = "jtext" THEN <<"ok", text[2]>> ELSE <<"JSONDecodeError">>

TimeoutError == JObj(<< <<"error", JStr(<<"MCP call timed out">>)>> >>)
UnexpectedError(msg) == JObj(<< <<"error", JStr(<<"Unexpected error: ", msg>>)>> >>)

\* lines 96-102
ReturnValue(rc, out, err) ==
    IF rc = 0
    THEN IF PyLoads(out)[1] = "ok"
         THEN PyLoads(out)[2]
         ELSE JObj(<< <<"error", JStr(<<"Failed to parse MCP response">>)>>,
                      <<"raw_output", out>> >>)
    ELSE JObj(<< <<"error", JStr(<<"MCP call failed: ">> \o err)>>,
                 <<"return_code", JNum(rc)>> >>)

(***************************************************************************)
(* Actions of one bridge call.                                             *)
(***************************************************************************)
\* call_mcp_tool is entered; the script is written to a temporary file
CallMcpTool(t, p) ==
    /\ pc = "idle"
    /\ calls < MaxCalls
    /\ pc' = "tmp"
    /\ tool' = t
    /\ params' = p
    /\ tmpFiles' = tmpFiles + 1
    /\ calls' = calls + 1
    /\ orphans' = IF server \in {"running", "nomodule"} THEN orphans + 1 ELSE orphans
    /\ wrapper' = "none"
    /\ wcode' = 0
    /\ wstdout' = NoValue
    /\ wstderr' = <<>>
    /\ server' = "none"
    /\ code' = 0
    /\ output' = <<>>
    /\ errtext' = <<>>
    /\ stdin' = <<>>
    /\ scanned' = FALSE
    /\ ret' = NoValue
    /\ nproc' = 0
    /\ UNCHANGED started
    /\ UNCHANGED <<tvars, rvars, mvars>>

\* subprocess.run starts `node <script>`
RunLaunch ==
    /\ pc = "tmp"
    /\ pc' = "run"
    /\ wrapper' = "started"
    /\ started' = started + 1
    /\ nproc' = nproc + 1
    /\ UNCHANGED <<tool, params, tmpFiles, wcode, wstdout, wstderr, server, code,
                   output, errtext, stdin, scanned, ret, calls, orphans>>
    /\ UNCHANGED <<tvars, rvars, mvars>>

\* subprocess.run cannot start node (FileNotFoundError): except Exception
RunLaunchFail ==
    /\ pc = "tmp"
    /\ pc' = "idle"
    /\ ret' = UnexpectedError("[Errno 2] No such file or directory: 'node'")
    /\ UNCHANGED <<tool, params, tmpFiles, wrapper, wcode, wstdout, wstderr,
                   server, code, output, errtext, stdin, scanned, calls, started,
                   nproc, orphans>>
    /\ UNCHANGED <<tvars, rvars, mvars>>

\* (mutant) the script writes the request twice before it ends stdin
WrapperSpawnTwice(pathOk) ==
    /\ wrapper = "started"
    /\ wrapper' = "waiting"
    /\ server' = IF pathOk THEN "running" ELSE "nomodule"
    /\ started' = started + 1
    /\ nproc' = nproc + 1
    /\ stdin' = <<StdinWrite(tool, params), StdinWrite(tool, params), StdinEnd>>
    /\ UNCHANGED <<pc, tool, params, tmpFiles, wcode, wstdout, wstderr, code,
                   output, errtext, scanned, ret, calls, orphans>>
    /\ UNCHANGED <<tvars, rvars, mvars>>

\* the script spawns the server, writes the request and ends stdin;
\* pathOk: <mcp_server_path>/index.js exists
WrapperSpawn(pathOk) ==
    /\ wrapper = "started"
    /\ wrapper' = "waiting"
    /\ server' = IF pathOk THEN "running" ELSE "nomodule"
    /\ started' = started + 1
    /\ nproc' = nproc + 1
    /\ stdin' = <<StdinWrite(tool, params), StdinEnd>>
    /\ UNCHANGED <<pc, tool, params, tmpFiles, wcode, wstdout, wstderr, code,
                   output, errtext, scanned, ret, calls, orphans>>
    /\ UNCHANGED <<tvars, rvars, mvars>>

\* spawn fails in the script: the 'error' event has no listener, Node
\* reports the uncaught error on stderr and exits with code 1
WrapperSpawnFail ==
    /\ wrapper = "started"
    /\ wrapper' = "exited"
    /\ wcode' = 1
    /\ wstdout' = JStr(<<>>)
    /\ wstderr' = <<"Error: spawn node EAGAIN">>
    /\ UNCHANGED <<pc, tool, params, tmpFiles, server, code, output, errtext,
                   stdin, scanned, ret, calls, started, nproc, orphans>>
    /\ UNCHANGED <<tvars, rvars, mvars>>

\* the server prints a line; serverProcess.stdout.on('data') appends it
ServerWrite(line) ==
    /\ server = "running"
    /\ wrapper = "waiting"
    /\ Len(output) < MaxLines
    /\ output' = Append(output, line)
    /\ UNCHANGED <<pc, tool, params, tmpFiles, wrapper, wcode, wstdout, wstderr,
                   server, code, errtext, stdin, scanned, ret, calls, started,
                   nproc, orphans>>
    /\ UNCHANGED <<tvars, rvars, mvars>>

\* the server writes to stderr; serverProcess.stderr.on('data') echoes it
ServerStderr(chunk) ==
    /\ server = "running"
    /\ wrapper = "waiting"
    /\ Len(errtext) < MaxErr
    /\ errtext' = Append(errtext, chunk)
    /\ wstderr' = wstderr \o StderrEcho(chunk)
    /\ UNCHANGED <<pc, tool, params, tmpFiles, wrapper, wcode, wstdout, server,
                   code, output, stdin, scanned, ret, calls, started, nproc,
                   orphans>>
    /\ UNCHANGED <<tvars, rvars, mvars>>

\* the server process exits with code c
ServerExit(c) ==
    /\ server = "running"
    /\ server' = "exited"
    /\ code' = c
    /\ UNCHANGED <<pc, tool, params, tmpFiles, wrapper, wcode, wstdout, wstderr,
                   output, errtext, stdin, scanned, ret, calls, started, nproc,
                   orphans>>
    /\ UNCHANGED <<tvars, rvars, mvars>>

\* node cannot load <mcp_server_path>/index.js: message on stderr, exit code 1
ServerNoModule ==
    /\ server = "nomodule"
    /\ server' = "exited"
    /\ code' = 1
    /\ errtext' = IF wrapper = "waiting" THEN <<"Cannot find module">> ELSE errtext
    /\ wstderr' = IF wrapper = "waiting"
                  THEN wstderr \o StderrEcho("Cannot find module")
                  ELSE wstderr
    /\ UNCHANGED <<pc, tool, params, tmpFiles, wrapper, wcode, wstdout, output,
                   stdin, scanned, ret, calls, started, nproc, orphans>>
    /\ UNCHANGED <<tvars, rvars, mvars>>

\* serverProcess.on('close', (code) => ...): scan, print, and the script ends
WrapperClose ==
    /\ wrapper = "waiting"
    /\ server = "exited"
    /\ wrapper' = "exited"
    /\ wcode' = 0
    /\ wstdout' = CloseHandler(output)
    /\ scanned' = TRUE
    /\ UNCHANGED <<pc, tool, params, tmpFiles, wstderr, server, code, output,
                   errtext, stdin, ret, calls, started, nproc, orphans>>
    /\ UNCHANGED <<tvars, rvars, mvars>>

\* subprocess.run returns; os.unlink; lines 96-102
Return ==
    /\ pc = "run"
    /\ wrapper = "exited"
    /\ pc' = "idle"
    /\ tmpFiles' = tmpFiles - 1
    /\ ret' = ReturnValue(wcode, wstdout, wstderr)
    /\ UNCHANGED <<tool, params, wrapper, wcode, wstdout, wstderr, server, code,
                   output, errtext, stdin, scanned, calls, started, nproc,
                   orphans>>
    /\ UNCHANGED <<tvars, rvars, mvars>>

\* (mutant) the timeout handler launches the script again
TimeoutRetry ==
    /\ pc = "run"
    /\ wrapper \in {"started", "waiting"}
    /\ nproc < 3
    /\ wrapper' = "started"
    /\ started' = started + 1
    /\ nproc' = nproc + 1
    /\ UNCHANGED <<pc, tool, params, tmpFiles, wcode, wstdout, wstderr, server,
                   code, output, errtext, stdin, scanned, ret, calls, orphans>>
    /\ UNCHANGED <<tvars, rvars, mvars>>

\* 30 s passed and the script process has not exited: subprocess.run kills
\* the script process and raises TimeoutExpired (line 104)
Timeout ==
    /\ pc = "run"
    /\ wrapper \in {"started", "waiting"}
    /\ pc' = "idle"
    /\ wrapper' = "killed"
    /\ ret' = TimeoutError
    /\ UNCHANGED <<tool, params, tmpFiles, wcode, wstdout, wstderr, server, code,
                   output, errtext, stdin, scanned, calls, started, nproc,
                   orphans>>
    /\ UNCHANGED <<tvars, rvars, mvars>>

Next ==
    \/ \E t \in ToolNames, p \in ParamValues : CallMcpTool(t, p)
    \/ RunLaunch
    \/ RunLaunchFail
    \/ \E ok \in BOOLEAN : WrapperSpawn(ok)
    \/ WrapperSpawnFail
    \/ \E l \in StdoutLines : ServerWrite(l)
    \/ \E ch \in StderrChunks : ServerStderr(ch)
    \/ \E c \in ExitCodes : ServerExit(c)
    \/ ServerNoModule
    \/ WrapperClose
    \/ Return
    \/ Timeout

Spec == Init /\ [][Next]_vars

(***************************************************************************)
(* Python operations used by the tool functions.  An evaluation yields     *)
(* Ok(v) or Raise(e); Bind(r, F) continues with F unless r raised.         *)
(***************************************************************************)
Ok(v) == <<"ok", v>>
Raise(e) == <<"raise", e>>
Bind(r, F(_)) == IF r[1] = "ok" THEN F(r[2]) ELSE r

\* isinstance(v, str)
IsStr(v) == v[1] \in {"str", "jtext", "lines"}

\* the text of f"{v}" / str(v), as fragments; the repr of a container and a
\* text that is not built from fragments are kept as one fragment
Frags(v) ==
    CASE v[1] = "str" -> v[2]
      [] v[1] = "jtext" -> <<"<json text>">>
      [] v[1] = "lines" -> IF v[2] = <<>> THEN <<>> ELSE <<"<stdout text>">>
      [] v[1] = "null" -> <<"None">>
      [] v[1] = "bool" -> IF v[2] THEN <<"True">> ELSE <<"False">>
      [] v[1] = "num" -> <<ToString(v[2])>>
      [] v[1] = "arr" -> <<"<list>">>
      [] OTHER -> <<"<dict>">>

\* bool(v)
PyTruthy(v) ==
    CASE v[1] = "null" -> FALSE
      [] v[1] = "bool" -> v[2]
      [] v[1] = "num" -> v[2] # 0
      [] v[1] = "jtext" -> TRUE
      [] OTHER -> v[2] # <<>>

\* the word k occurs in the text of v (a word is a fragment of its own)
RECURSIVE Mentions(_, _)
Mentions(v, k) ==
    CASE v[1] = "str" -> \E i \in 1..Len(v[2]) : v[2][i] = k
      [] v[1] = "jtext" -> Mentions(v[2], k)
      [] v[1] \in {"lines", "arr"} -> \E i \in 1..Len(v[2]) : Mentions(v[2][i], k)
      [] v[1] = "obj" ->
            \E i \in 1..Len(v[2]) : v[2][i][1] = k \/ Mentions(v[2][i][2], k)
      [] OTHER -> FALSE

\* k in v, for a string k
PyIn(k, v) ==
    CASE v[1] = "obj" -> Ok(HasKey(v, k))
      [] v[1] = "arr" -> Ok(\E i \in 1..Len(v[2]) : v[2][i] = JStr(<<k>>))
      [] IsStr(v) -> Ok(Mentions(v, k))
      [] OTHER -> Raise("TypeError")

\* v[k], for a string k
PyGetItem(v, k) ==
    IF v[1] = "obj"
    THEN IF HasKey(v, k) THEN Ok(Lookup(v, k)) ELSE Raise("KeyError")
    ELSE Raise("TypeError")

\* len(v)
PyLen(v) ==
    CASE v[1] \in {"arr", "obj", "str", "lines"} -> Ok(Len(v[2]))
      [] v[1] = "jtext" -> Ok(1)
      [] OTHER -> Raise("TypeError")

\* v[0], for a v with len(v) > 0
PyFirst(v) ==
    CASE v[1] = "arr" -> Ok(v[2][1])
      [] v[1] = "str" -> Ok(JStr(<<v[2][1]>>))
      [] v[1] \in {"jtext", "lines"} -> Ok(JStr(<<"<char>">>))
      [] v[1] = "obj" -> Raise("KeyError")
      [] OTHER -> Raise("TypeError")

\* (mutant) v[k] in place of v.get(k, dflt)
PyGetStrict(v, k, dflt) ==
    IF v[1] = "obj"
    THEN IF HasKey(v, k) THEN Ok(Lookup(v, k)) ELSE Raise("KeyError")
    ELSE Raise("AttributeError")

\* v.get(k, dflt)
PyGet(v, k, dflt) ==
    IF v[1] = "obj"
    THEN Ok(IF HasKey(v, k) THEN Lookup(v, k) ELSE dflt)
    ELSE Raise("AttributeError")

\* json.loads(v)
JsonLoads(v) ==
    CASE v[1] = "jtext" -> Ok(v[2])
      [] v[1] \in {"str", "lines"} -> Raise("JSONDecodeError")
      [] OTHER -> Raise("TypeError")

\* the elements that `for x in v` visits
PyIter(v) ==
    CASE v[1] = "arr" -> Ok(v[2])
      [] v[1] = "obj" -> Ok([i \in 1..Len(v[2]) |-> JStr(<<v[2][i][1]>>)])
      [] v[1] = "str" -> Ok([i \in 1..Len(v[2]) |-> JStr(<<v[2][i]>>)])
      [] v[1] \in {"jtext", "lines"} -> Ok(<<JStr(<<"<char>">>)>>)
      [] OTHER -> Raise("TypeError")

\* v[:10] of a timestamp: a timestamp text has its date as first fragment
PyDatePart(v) ==
    CASE v[1] = "str" -> Ok(JStr(SubSeq(v[2], 1, 1)))
      [] v[1] \in {"jtext", "lines", "arr"} -> Ok(v)
      [] OTHER -> Raise("TypeError")

\* v.strip(): the texts of the model carry no outer whitespace
PyStrip(v) == IF IsStr(v) THEN Ok(v) ELSE Raise("AttributeError")

\* the words of the model in string order, for sorted()
SortedWords ==
    <<"blocked", "cancelled", "completed", "high", "in_progress", "low",
      "medium", "review", "todo", "unknown">>

WordRank(w) ==
    IF \E i \in 1..Len(SortedWords) : SortedWords[i] = w
    THEN CHOOSE i \in 1..Len(SortedWords) : SortedWords[i] = w
    ELSE 0

\* w.replace('_', ' '), for a word of the model
ReplaceWord(w) == IF w = "in_progress" THEN "in progress" ELSE w

\* w.title(), for a word of the model
TitleWord(w) ==
    CASE w = "ann" -> "Ann"
      [] w = "blocked" -> "Blocked"
      [] w = "cancelled" -> "Cancelled"
      [] w = "completed" -> "Completed"
      [] w = "high" -> "High"
      [] w = "in progress" -> "In Progress"
      [] w = "in_progress" -> "In_Progress"
      [] w = "low" -> "Low"
      [] w = "medium" -> "Medium"
      [] w = "review" -> "Review"
      [] w = "todo" -> "Todo"
      [] w = "unknown" -> "Unknown"
      [] OTHER -> w

\* v.replace('_', ' ')
PyReplace(v) ==
    IF v[1] = "str"
    THEN Ok(JStr([i \in 1..Len(v[2]) |-> ReplaceWord(v[2][i])]))
    ELSE IF IsStr(v) THEN Ok(v) ELSE Raise("AttributeError")

\* v.title()
PyTitle(v) ==
    IF v[1] = "str"
    THEN Ok(JStr([i \in 1..Len(v[2]) |-> TitleWord(v[2][i])]))
    ELSE IF IsStr(v) THEN Ok(v) ELSE Raise("AttributeError")

\* v.replace('_', ' ').title()
PyReplaceTitle(v) == Bind(PyReplace(v), LAMBDA r : PyTitle(r))

\* counts[k] = counts.get(k, 0) + 1, counts being the sequence of its
\* <<key, count>> pairs in insertion order
CountKey(counts, k) ==
    IF k[1] \in {"arr", "obj"} THEN Raise("TypeError")
    ELSE IF \E i \in 1..Len(counts) : counts[i][1] = k
         THEN Ok([i \in 1..Len(counts) |->
                    IF counts[i][1] = k THEN <<k, counts[i][2] + 1>> ELSE counts[i]])
         ELSE Ok(Append(counts, <<k, 1>>))

KeyRank(k) ==
    CASE k[1] = "str" -> IF k[2] = <<>> THEN 0 ELSE WordRank(k[2][1])
      [] k[1] = "num" -> k[2]
      [] k[1] = "bool" -> IF k[2] THEN 1 ELSE 0
      [] OTHER -> 0

RECURSIVE InsertByRank(_, _)
InsertByRank(sorted, item) ==
    IF sorted = <<>> THEN <<item>>
    ELSE IF KeyRank(item[1]) < KeyRank(Head(sorted)[1])
         THEN <<item>> \o sorted
         ELSE <<Head(sorted)>> \o InsertByRank(Tail(sorted), item)

RECURSIVE SortByRank(_)
SortByRank(items) ==
    IF items = <<>> THEN <<>>
    ELSE InsertByRank(SortByRank(SubSeq(items, 1, Len(items) - 1)), items[Len(items)])

\* sorted(counts.items()): the keys must be mutually comparable
PySortedItems(counts) ==
    IF Len(counts) <= 1 THEN Ok(counts)
    ELSE IF \/ \A i \in 1..Len(counts) : counts[i][1][1] = "str"
            \/ \A i \in 1..Len(counts) : counts[i][1][1] \in {"num", "bool"}
         THEN Ok(SortByRank(counts))
         ELSE Raise("TypeError")

\* f"{(count / n) * 100:.1f}"
Percent(count, n) ==
    LET tenths == (count * 2000 + n) \div (2 * n) IN
    <<ToString(tenths \div 10), ".", ToString(tenths % 10)>>

\* sep.join(lines), each line given by its fragments
RECURSIVE PyJoin(_, _)
PyJoin(sep, lines) ==
    IF lines = <<>> THEN <<>>
    ELSE IF Len(lines) = 1 THEN lines[1]
         ELSE lines[1] \o <<sep>> \o PyJoin(sep, Tail(lines))

\* the separator written in the source: "\\n".join(...)
JoinSeparator == "\\n"

\* (mutant) no except clause: the exception leaves the function
TryPropagate(body, prefix) ==
    IF body[1] = "ok" THEN <<"return", body[2]>>
    ELSE <<"raise", body[2]>>

\* try: body / except Exception as e: return f"{prefix}{str(e)}"
TryExcept(body, prefix) ==
    IF body[1] = "ok" THEN <<"return", body[2]>>
    ELSE <<"return", JStr(prefix \o <<body[2]>>)>>

\* the text before {str(e)} in the except clause of each function
ExceptPrefix(f) ==
    CASE f = "switch_project" -> <<"Error", " switching to project: ">>
      [] f = "get_simple_task_overview" -> <<"Error", " analyzing tasks: ">>
      [] f = "get_blocked_tasks" -> <<"Error", " analyzing blocked tasks: ">>
      [] f = "get_high_priority_tasks" -> <<"Error", " analyzing high priority tasks: ">>
      [] f = "analyze_team_workload" -> <<"Error", " analyzing workload: ">>
      [] f = "search_tasks" -> <<"Error", " searching tasks: ">>
      [] f = "get_project_info" -> <<"Error", " getting project info: ">>

(***************************************************************************)
(* Inputs of the tool functions: task records, project records and values  *)
(* that call_mcp_tool may hand to a tool function (error values, and       *)
(* results of every JSON shape).                                           *)
(***************************************************************************)
TaskFull == JObj(<<<<"id", JStr(<<"t1">>)>>, <<"title",
    JStr(<<"Fix login">>)>>, <<"status", JStr(<<"blocked">>)>>, <<"priority",
    JStr(<<"high">>)>>, <<"assigned_to", JStr(<<"ann", "@",
    "example.com">>)>>, <<"depends_on", JArr(<<JStr(<<"t0">>)>>)>>,
    <<"description", JStr(<<"Users cannot log in">>)>>, <<"created_at",
    JStr(<<"2024-01-15", "T10:30:00Z">>)>>>>)
TaskTodo == JObj(<<<<"id", JStr(<<"t2">>)>>, <<"title",
    JStr(<<"Write docs">>)>>, <<"status", JStr(<<"todo">>)>>, <<"priority",
    JStr(<<"low">>)>>, <<"assigned_to", JNull>>>>)
TaskProgress == JObj(<<<<"id", JStr(<<"t3">>)>>, <<"title",
    JStr(<<"Ship release">>)>>, <<"status", JStr(<<"in_progress">>)>>,
    <<"priority", JStr(<<"high">>)>>, <<"assigned_to", JStr(<<"bob">>)>>>>)
TaskEmpty == JObj(<<>>)
TaskNullStatus == JObj(<<<<"status", JNull>>, <<"priority",
    JStr(<<"high">>)>>>>)
TaskListStatus == JObj(<<<<"status", JArr(<<JStr(<<"todo">>)>>)>>>>)
TaskBadTypes == JObj(<<<<"title", JNum(5)>>, <<"status", JStr(<<"todo">>)>>,
    <<"priority", JStr(<<"high">>)>>, <<"assigned_to", JNum(7)>>,
    <<"depends_on", JNum(3)>>, <<"created_at", JNum(20240115)>>,
    <<"description", JNum(9)>>>>)
TaskOutside == JObj(<<<<"id", JStr(<<"t4">>)>>, <<"title",
    JStr(<<"Old idea">>)>>, <<"status", JStr(<<"cancelled">>)>>,
    <<"priority", JStr(<<"high">>)>>, <<"assigned_to", JStr(<<"bob">>)>>>>)
TaskNullPriority == JObj(<<<<"title", JStr(<<"No priority">>)>>,
    <<"priority", JNull>>>>)
TaskListAssignee == JObj(<<<<"assigned_to", JArr(<<JStr(<<"ann">>)>>)>>>>)
ProjectA == JObj(<<<<"name", JStr(<<"Simple Task">>)>>, <<"projectName",
    JStr(<<"simple_task">>)>>, <<"description", JStr(<<"Main project">>)>>>>)
ProjectB == JObj(<<<<"projectName", JStr(<<"Error", "Tracker">>)>>>>)

\* {"items": items, "total_count": total} and {"items": items}
TaskList(items, total) == JObj(<< <<"items", items>>, <<"total_count", total>> >>)
TaskListOnly(items) == JObj(<< <<"items", items>> >>)

\* the MCP response format: {"content": [{"type": "text", "text": text}]}
McpContent(text) ==
    JObj(<< <<"content", JArr(<< JObj(<< <<"type", JStr(<<"text">>)>>,
                                         <<"text", text>> >>) >>)>> >>)

\* the error values of call_mcp_tool
ErrorResults ==
    {JObj(<<<<"error", JStr(<<"MCP call timed out">>)>>>>),
     JObj(<<<<"error", JStr(<<"No valid response found">>)>>, <<"raw_output",
         JStr(<<>>)>>>>)}

\* results that are not a task payload: every JSON type, and the project list
PlainResults ==
    {JNull,
     JBool(TRUE),
     JNum(7),
     JStr(<<"done">>),
     JStr(<<"an ", "error", " occurred">>),
     JArr(<<>>),
     JArr(<<JStr(<<"error">>)>>),
     JArr(<<JStr(<<"content">>)>>),
     JArr(<<JNum(5)>>),
     JArr(<<ProjectA, ProjectB>>),
     JObj(<<>>)}

\* results with a content key that do not carry a task list
ContentResults ==
    {JObj(<<<<"content", JNull>>>>),
     JObj(<<<<"content", JArr(<<>>)>>>>),
     JObj(<<<<"content", JStr(<<"text">>)>>>>),
     JObj(<<<<"content", JObj(<<<<"a", JNum(1)>>>>)>>>>),
     JObj(<<<<"content", JArr(<<JNum(5)>>)>>>>),
     JObj(<<<<"content", JArr(<<JObj(<<>>)>>)>>>>),
     JObj(<<<<"content", JArr(<<JObj(<<<<"text", JNum(5)>>>>)>>)>>>>),
     JObj(<<<<"content", JArr(<<JObj(<<<<"text",
         JStr(<<"Project not found">>)>>>>)>>)>>>>),
     JObj(<<<<"content", JArr(<<JObj(<<<<"text", JText(JArr(<<>>))>>>>)>>)>>>>),
     JObj(<<<<"content", JArr(<<JObj(<<<<"text", JText(JObj(<<>>))>>>>)>>)>>>>)}

\* task lists in the MCP response format
PayloadResults ==
    {McpContent(JText(TaskList(JArr(<<>>), JNum(0)))),
     McpContent(JText(TaskList(JArr(<<TaskFull>>), JNum(1)))),
     McpContent(JText(TaskList(JArr(<<TaskTodo, TaskFull, TaskProgress>>),
         JNum(3)))),
     McpContent(JText(TaskListOnly(JArr(<<TaskEmpty, TaskFull>>)))),
     McpContent(JText(TaskList(JArr(<<TaskNullStatus>>), JNum(1)))),
     McpContent(JText(TaskList(JArr(<<TaskFull, TaskNullStatus>>), JNum(2)))),
     McpContent(JText(TaskList(JArr(<<TaskListStatus>>), JNum(1)))),
     McpContent(JText(TaskList(JArr(<<JNum(5)>>), JNum(1)))),
     McpContent(JText(TaskList(JNum(5), JNum(1)))),
     McpContent(JText(TaskList(JStr(<<"abc">>), JNum(1)))),
     McpContent(JText(TaskList(JArr(<<TaskBadTypes>>), JNum(1)))),
     McpContent(JText(TaskList(JArr(<<TaskOutside, TaskFull>>), JNum(2)))),
     McpContent(JText(TaskList(JArr(<<TaskNullPriority>>), JNum(1))))}

\* task lists as the result itself
DirectResults ==
    {TaskList(JArr(<<>>), JNum(0)),
     TaskList(JArr(<<TaskFull, TaskTodo, TaskProgress, TaskEmpty>>), JNum(4)),
     TaskListOnly(JArr(<<TaskBadTypes>>)),
     TaskList(JArr(<<TaskOutside, TaskFull, TaskProgress>>), JNum(7)),
     TaskListOnly(JArr(<<TaskNullPriority>>)),
     TaskListOnly(JArr(<<TaskListAssignee>>)),
     TaskListOnly(JArr(<<JNum(5)>>)),
     TaskListOnly(JNum(5))}

\* what a call of call_mcp_tool may return to a tool function
ToolResults ==
    ErrorResults \cup PlainResults \cup ContentResults \cup PayloadResults \cup DirectResults

\* task records with every status of status_order, two of them blocked
TaskReview ==
    JObj(<< <<"id", JStr(<<"t5">>)>>, <<"title", JStr(<<"Review API">>)>>,
            <<"status", JStr(<<"review">>)>>, <<"priority", JStr(<<"high">>)>>,
            <<"assigned_to", JStr(<<"ann", "@", "example.com">>)>> >>)
TaskDone ==
    JObj(<< <<"id", JStr(<<"t6">>)>>, <<"title", JStr(<<"Set up CI">>)>>,
            <<"status", JStr(<<"completed">>)>>, <<"priority", JStr(<<"high">>)>>,
            <<"assigned_to", JStr(<<"bob">>)>> >>)
TaskBlockedToo ==
    JObj(<< <<"id", JStr(<<"t7">>)>>, <<"title", JStr(<<"Renew licence">>)>>,
            <<"status", JStr(<<"blocked">>)>>, <<"priority", JStr(<<"high">>)>>,
            <<"assigned_to", JNull>> >>)

TaskPool == {TaskFull, TaskTodo, TaskProgress, TaskReview, TaskDone, TaskBlockedToo}

\* the lists of n different tasks of S, in every order
OrderedLists(S, n) ==
    {l \in [1..n -> S] : \A i, j \in 1..n : i # j => l[i] # l[j]}

\* task payloads in the MCP response format: up to MaxItems tasks of the
\* pool, in every order
OrderedPayloads ==
    {McpContent(JText(TaskList(JArr(l), JNum(Len(l))))) :
        l \in UNION {OrderedLists(TaskPool, n) : n \in 0..MaxItems}}

\* task lists as the result itself: up to MaxItems tasks of two members
\* and of nobody, one of them with a status outside the counters, in every
\* order
WorkloadResults ==
    LET pool == {TaskFull, TaskTodo, TaskProgress, TaskDone, TaskOutside} IN
    {TaskList(JArr(l), JNum(Len(l))) :
        l \in UNION {OrderedLists(pool, n) : n \in 1..MaxItems}}

\* the keys of a task record that the reports read
TaskKeys ==
    {"id", "title", "status", "priority", "assigned_to", "depends_on",
     "description", "created_at"}

\* the record t without the keys outside K
OnlyKeys(t, K) == JObj(SelectSeq(t[2], LAMBDA pair : pair[1] \in K))

\* TaskFull with every subset of its keys absent
SparseTasks == {OnlyKeys(TaskFull, K) : K \in SUBSET TaskKeys}

(***************************************************************************)
(* The tool functions (real_mcp_tools.py lines 110-615).  Each body is     *)
(* evaluated on the value(s) that call_mcp_tool returned.                  *)
(***************************************************************************)
\* "Parse the MCP response format": yields <<"return", text>> for an early
\* return, or <<"data", task_data, items>>
ParseContent(d, errPrefix, noData) ==
    Bind(PyIn("content", d), LAMBDA has :
      IF ~has THEN Ok(<<"return", JStr(noData)>>)
      ELSE
      Bind(PyGetItem(d, "content"), LAMBDA c :
      Bind(PyLen(c), LAMBDA n :
        IF ~(n > 0) THEN Ok(<<"return", JStr(noData)>>)
        ELSE
        Bind(PyFirst(c), LAMBDA first :
        Bind(PyGet(first, "text", JStr(<<>>)), LAMBDA content :
          IF JsonLoads(content) = Raise("JSONDecodeError")
          THEN Ok(<<"return", JStr(errPrefix \o Frags(content) \o <<"...">>)>>)
          ELSE
          Bind(JsonLoads(content), LAMBDA task_data :
          Bind(PyGet(task_data, "items", JArr(<<>>)), LAMBDA items :
            Ok(<<"data", task_data, items>>))))))))

\* the loop of lines 173-178: <<status_counts, priority_counts>>
RECURSIVE CountTasks(_, _, _)
CountTasks(tasks, sc, pcnt) ==
    IF tasks = <<>> THEN Ok(<<sc, pcnt>>)
    ELSE
    Bind(PyGet(Head(tasks), "status", JStr(<<"unknown">>)), LAMBDA status :
    Bind(PyGet(Head(tasks), "priority", JStr(<<"unknown">>)), LAMBDA priority :
    Bind(CountKey(sc, status), LAMBDA sc2 :
    Bind(CountKey(pcnt, priority), LAMBDA pc2 :
      CountTasks(Tail(tasks), sc2, pc2)))))

\* the loops of lines 190-192 (replace = TRUE: status.replace('_', ' ')
\* .title()) and 199-201 (replace = FALSE: priority.title())
RECURSIVE DistributionLines(_, _, _)
DistributionLines(sorted, n, replace) ==
    IF sorted = <<>> THEN Ok(<<>>)
    ELSE
    Bind(IF replace THEN PyReplaceTitle(Head(sorted)[1]) ELSE PyTitle(Head(sorted)[1]),
         LAMBDA name :
    Bind(DistributionLines(Tail(sorted), n, replace), LAMBDA rest :
      Ok(<< <<"- **">> \o Frags(name) \o <<"**: ", ToString(Head(sorted)[2]), " (">>
              \o (IF n > 0 THEN Percent(Head(sorted)[2], n) ELSE <<"0", ".", "0">>)
              \o <<"%)">> >> \o rest)))

\* [t for t in items if t.get("priority") == "high"]
RECURSIVE HighPriorityOf(_)
HighPriorityOf(tasks) ==
    IF tasks = <<>> THEN Ok(<<>>)
    ELSE
    Bind(PyGet(Head(tasks), "priority", JNull), LAMBDA priority :
    Bind(HighPriorityOf(Tail(tasks)), LAMBDA rest :
      Ok(IF priority = JStr(<<"high">>) THEN <<Head(tasks)>> \o rest ELSE rest)))

\* the loop of lines 210-212
RECURSIVE RecentHighLines(_)
RecentHighLines(tasks) ==
    IF tasks = <<>> THEN Ok(<<>>)
    ELSE
    Bind(PyGet(Head(tasks), "status", JStr(<<"unknown">>)), LAMBDA status :
    Bind(PyReplaceTitle(status), LAMBDA badge :
    Bind(PyGet(Head(tasks), "title", JStr(<<"Untitled">>)), LAMBDA title :
    Bind(RecentHighLines(Tail(tasks)), LAMBDA rest :
      Ok(<< <<"- [">> \o Frags(badge) \o <<"] **">> \o Frags(title) \o <<"**">> >>
            \o rest)))))

\* the body of the try block of get_simple_task_overview, summary_data
\* being the value call_mcp_tool returned
OverviewBody(project_name, summary_data) ==
    Bind(PyIn("error", summary_data), LAMBDA isError :
      IF isError
      THEN Bind(PyGetItem(summary_data, "error"), LAMBDA e :
             Ok(JStr(<<"Error", " getting tasks: ">> \o Frags(e))))
      ELSE
      Bind(ParseContent(summary_data, <<"Error", " parsing task data: ">>,
                        <<"No task data received from MCP server">>), LAMBDA parsed :
        IF parsed[1] = "return" THEN Ok(parsed[2])
        ELSE
        Bind(PyLen(parsed[3]), LAMBDA n :
        Bind(PyGet(parsed[2], "total_count", JNum(n)), LAMBDA total :
        Bind(PyIter(parsed[3]), LAMBDA tasks :
        Bind(CountTasks(tasks, <<>>, <<>>), LAMBDA counts :
        Bind(PySortedItems(counts[1]), LAMBDA byStatus :
        Bind(DistributionLines(byStatus, n, TRUE), LAMBDA statusLines :
        Bind(PySortedItems(counts[2]), LAMBDA byPriority :
        Bind(DistributionLines(byPriority, n, FALSE), LAMBDA priorityLines :
        Bind(HighPriorityOf(tasks), LAMBDA high :
        Bind(RecentHighLines(SubSeq(high, 1, IF Len(high) < 5 THEN Len(high) ELSE 5)),
             LAMBDA recent :
          Ok(JStr(PyJoin(JoinSeparator,
               << <<"# Simple Task Overview">>,
                  <<"**Total Tasks**: ">> \o Frags(total),
                  <<"**Project**: ">>
                     \o (IF PyTruthy(project_name) THEN Frags(project_name)
                         ELSE <<"Default Project">>),
                  <<"**Data Source**: aitistra.com API">>,
                  <<>>,
                  <<"## Status Distribution:">> >>
               \o statusLines
               \o << <<>>, <<"## Priority Distribution:">> >>
               \o priorityLines
               \o (IF recent # <<>>
                   THEN << <<>>, <<"## Recent High Priority Tasks:">> >> \o recent
                   ELSE <<>>))))))))))))))))

\* get_simple_task_overview: the try block and its except clause
Overview(project_name, summary_data) ==
    TryExcept(OverviewBody(project_name, summary_data),
              ExceptPrefix("get_simple_task_overview"))

\* the characters outside ASCII that the source writes, by code point
CheckMark == "[U+2705]"
WarningSign == "[U+26A0][U+FE0F]"
ConstructionSign == "[U+1F6A7]"
FireSign == "[U+1F525]"

\* task.get("assigned_to") or "Unassigned"
AssignedOf(task) ==
    Bind(PyGet(task, "assigned_to", JNull), LAMBDA a :
      Ok(IF PyTruthy(a) THEN a ELSE JStr(<<"Unassigned">>)))

\* the loop body of lines 267-291, for the task at position i
BlockedTaskLines(task, i) ==
    Bind(PyGet(task, "title", JStr(<<"Untitled">>)), LAMBDA title :
    Bind(PyGet(task, "priority", JStr(<<"unknown">>)), LAMBDA p :
    Bind(PyTitle(p), LAMBDA priority :
    Bind(AssignedOf(task), LAMBDA assigned :
    Bind(PyGet(task, "depends_on", JArr(<<>>)), LAMBDA dependencies :
    Bind(PyGet(task, "created_at", JStr(<<>>)), LAMBDA created_at :
    Bind(IF PyTruthy(created_at) THEN PyDatePart(created_at)
         ELSE Ok(JStr(<<"Unknown">>)), LAMBDA created :
    Bind(IF PyTruthy(dependencies) THEN PyLen(dependencies) ELSE Ok(0), LAMBDA ndeps :
    Bind(PyGet(task, "description", JStr(<<>>)), LAMBDA d :
    Bind(PyStrip(d), LAMBDA description :
      Ok(<< <<"## ", ToString(i), ". ">> \o Frags(title),
            <<"- **Priority**: ">> \o Frags(priority),
            <<"- **Assigned to**: ">> \o Frags(assigned),
            <<"- **Created**: ">> \o Frags(created) >>
         \o (IF PyTruthy(dependencies)
             THEN << <<"- **Depends on**: ", ToString(ndeps), " task(s)">> >>
             ELSE <<>>)
         \o (IF PyTruthy(description)
             THEN << <<"- **Description**: ">> \o Frags(description) >>
             ELSE <<>>)
         \o << <<>> >>)))))))))))

RECURSIVE BlockedLines(_, _)
BlockedLines(tasks, i) ==
    IF tasks = <<>> THEN Ok(<<>>)
    ELSE Bind(BlockedTaskLines(Head(tasks), i), LAMBDA lines :
         Bind(BlockedLines(Tail(tasks), i + 1), LAMBDA rest : Ok(lines \o rest)))

\* the body of the try block of get_blocked_tasks
BlockedBody(project_name, blocked_data) ==
    Bind(PyIn("error", blocked_data), LAMBDA isError :
      IF isError
      THEN Bind(PyGetItem(blocked_data, "error"), LAMBDA e :
             Ok(JStr(<<"Error", " getting blocked tasks: ">> \o Frags(e))))
      ELSE
      Bind(ParseContent(blocked_data, <<"Error", " parsing blocked tasks data: ">>,
                        <<"No blocked tasks data received from MCP server">>),
           LAMBDA parsed :
        IF parsed[1] = "return" THEN Ok(parsed[2])
        ELSE IF ~PyTruthy(parsed[3])
        THEN Ok(JStr(<<CheckMark, " No blocked tasks found!">>))
        ELSE
        Bind(PyLen(parsed[3]), LAMBDA n :
        Bind(PyIter(parsed[3]), LAMBDA tasks :
        Bind(BlockedLines(tasks, 1), LAMBDA lines :
          Ok(JStr(PyJoin(JoinSeparator,
               << <<"# Blocked Tasks (", ToString(n), " found)">>,
                  <<"**Data Source**: aitistra.com API">>,
                  <<>> >> \o lines))))))))

\* get_blocked_tasks: the try block and its except clause
Blocked(project_name, blocked_data) ==
    TryExcept(BlockedBody(project_name, blocked_data),
              ExceptPrefix("get_blocked_tasks"))

\* the loop of lines 342-346: by_status as the sequence of its
\* <<status, tasks>> pairs in insertion order
RECURSIVE GroupByStatus(_, _)
GroupByStatus(tasks, groups) ==
    IF tasks = <<>> THEN Ok(groups)
    ELSE
    Bind(PyGet(Head(tasks), "status", JStr(<<"unknown">>)), LAMBDA status :
      IF status[1] \in {"arr", "obj"} THEN Raise("TypeError")
      ELSE IF \E i \in 1..Len(groups) : groups[i][1] = status
      THEN GroupByStatus(Tail(tasks),
             [i \in 1..Len(groups) |->
                IF groups[i][1] = status
                THEN <<status, Append(groups[i][2], Head(tasks))>>
                ELSE groups[i]])
      ELSE GroupByStatus(Tail(tasks), Append(groups, <<status, <<Head(tasks)>> >>)))

\* (mutant) todo before blocked
StatusOrderTodoFirst == <<"todo", "blocked", "in_progress", "review", "completed">>

\* status_order of line 355
StatusOrder == <<"blocked", "todo", "in_progress", "review", "completed">>

\* the loop of lines 367-375
RECURSIVE HighTaskLines(_)
HighTaskLines(tasks) ==
    IF tasks = <<>> THEN Ok(<<>>)
    ELSE
    Bind(PyGet(Head(tasks), "title", JStr(<<"Untitled">>)), LAMBDA title :
    Bind(AssignedOf(Head(tasks)), LAMBDA assigned :
    Bind(PyGet(Head(tasks), "created_at", JStr(<<>>)), LAMBDA created_at :
    Bind(PyGet(Head(tasks), "id", JStr(<<"unknown">>)), LAMBDA task_id :
    Bind(IF PyTruthy(created_at) THEN PyDatePart(created_at) ELSE Ok(created_at),
         LAMBDA created :
    Bind(HighTaskLines(Tail(tasks)), LAMBDA rest :
      Ok(<< <<"- **">> \o Frags(title) \o <<"** (ID: ">> \o Frags(task_id)
              \o <<", Assigned: ">> \o Frags(assigned) \o <<")">> >>
         \o (IF PyTruthy(created_at)
             THEN << <<"  Created: ">> \o Frags(created) >>
             ELSE <<>>)
         \o rest)))))))

\* the loop of lines 357-377 over status_order, from position i on
RECURSIVE StatusSections(_, _)
StatusSections(groups, i) ==
    IF i > Len(StatusOrder) THEN Ok(<<>>)
    ELSE IF ~\E g \in 1..Len(groups) : groups[g][1] = JStr(<<StatusOrder[i]>>)
    THEN StatusSections(groups, i + 1)
    ELSE
    LET tasks == groups[CHOOSE g \in 1..Len(groups) :
                          groups[g][1] = JStr(<<StatusOrder[i]>>)][2] IN
    Bind(HighTaskLines(tasks), LAMBDA lines :
    Bind(StatusSections(groups, i + 1), LAMBDA rest :
      Ok(<< <<"## ", TitleWord(ReplaceWord(StatusOrder[i])), " (",
               ToString(Len(tasks)), ")">>,
            <<>> >>
         \o lines \o << <<>> >> \o rest)))

\* the body of the try block of get_high_priority_tasks
HighPriorityBody(project_name, high_priority_data) ==
    Bind(PyIn("error", high_priority_data), LAMBDA isError :
      IF isError
      THEN Bind(PyGetItem(high_priority_data, "error"), LAMBDA e :
             Ok(JStr(<<"Error", " getting high priority tasks: ">> \o Frags(e))))
      ELSE
      Bind(ParseContent(high_priority_data,
                        <<"Error", " parsing high priority tasks data: ">>,
                        <<"No high priority tasks data received from MCP server">>),
           LAMBDA parsed :
        IF parsed[1] = "return" THEN Ok(parsed[2])
        ELSE IF ~PyTruthy(parsed[3])
        THEN Ok(JStr(<<"No high priority tasks found.">>))
        ELSE
        Bind(PyIter(parsed[3]), LAMBDA tasks :
        Bind(GroupByStatus(tasks, <<>>), LAMBDA groups :
        Bind(PyLen(parsed[3]), LAMBDA n :
        Bind(StatusSections(groups, 1), LAMBDA sections :
          Ok(JStr(PyJoin(JoinSeparator,
               << <<"# High Priority Tasks (", ToString(n), " found)">>,
                  <<"**Data Source**: aitistra.com API">>,
                  <<>> >> \o sections)))))))))

\* get_high_priority_tasks: the try block and its except clause
HighPriority(project_name, high_priority_data) ==
    TryExcept(HighPriorityBody(project_name, high_priority_data),
              ExceptPrefix("get_high_priority_tasks"))

\* switch_project: the try block
SwitchProjectBody(project_name, result) ==
    Bind(PyIn("error", result), LAMBDA isError :
      IF isError
      THEN Bind(PyGetItem(result, "error"), LAMBDA e :
             Ok(JStr(<<"Error", " switching to project: ">> \o Frags(e))))
      ELSE Ok(JStr(<<CheckMark, " Switched to project: ">> \o Frags(project_name))))

\* switch_project(project_name), result being what call_mcp_tool returned
SwitchProject(project_name, result) ==
    TryExcept(SwitchProjectBody(project_name, result), ExceptPrefix("switch_project"))

\* if "Error" in switch_result
SwitchFailed(switch_result) == Mentions(switch_result, "Error")

\* return f"Project switch failed: {switch_result}"
SwitchFailure(switch_result) ==
    JStr(<<"Project switch failed: ">> \o Frags(switch_result))

\* the counters of one team member (lines 430-437)
LoadKeys == {"total", "high", "blocked", "in_progress", "completed", "todo"}
NewLoad == [k \in LoadKeys |-> 0]

\* lines 439-448 for a task assigned to a member with counters load
CountLoad(task, load) ==
    LET l1 == [load EXCEPT !["total"] = @ + 1] IN
    Bind(PyGet(task, "priority", JNull), LAMBDA priority :
    LET l2 == IF priority = JStr(<<"high">>) THEN [l1 EXCEPT !["high"] = @ + 1] ELSE l1 IN
    Bind(PyGet(task, "status", JStr(<<"unknown">>)), LAMBDA status :
      IF status[1] \in {"arr", "obj"} THEN Raise("TypeError")
      ELSE IF status[1] = "str" /\ Len(status[2]) = 1 /\ status[2][1] \in LoadKeys
      THEN Ok([l2 EXCEPT ![status[2][1]] = @ + 1])
      ELSE Ok(l2)))

\* the loop of lines 423-448: <<workload, unassigned_count>>, workload being
\* the sequence of its <<member, counters>> pairs in insertion order
RECURSIVE CountWorkload(_, _, _)
CountWorkload(tasks, workload, unassigned) ==
    IF tasks = <<>> THEN Ok(<<workload, unassigned>>)
    ELSE
    Bind(PyGet(Head(tasks), "assigned_to", JNull), LAMBDA assigned :
      IF ~PyTruthy(assigned) THEN CountWorkload(Tail(tasks), workload, unassigned + 1)
      ELSE IF assigned[1] \in {"arr", "obj"} THEN Raise("TypeError")
      ELSE
      LET known == \E i \in 1..Len(workload) : workload[i][1] = assigned
          w1 == IF known THEN workload ELSE Append(workload, <<assigned, NewLoad>>)
          m == CHOOSE i \in 1..Len(w1) : w1[i][1] = assigned
      IN
      Bind(CountLoad(Head(tasks), w1[m][2]), LAMBDA load :
        CountWorkload(Tail(tasks), [w1 EXCEPT ![m] = <<assigned, load>>], unassigned)))

\* sorted(workload.items(), key=lambda x: x[1]["total"], reverse=True):
\* (mutant) the sort without reverse=True
RECURSIVE InsertByTotalAscending(_, _)
InsertByTotalAscending(sorted, item) ==
    IF sorted = <<>> THEN <<item>>
    ELSE IF item[2]["total"] < Head(sorted)[2]["total"]
         THEN <<item>> \o sorted
         ELSE <<Head(sorted)>> \o InsertByTotalAscending(Tail(sorted), item)

\* a stable sort
RECURSIVE InsertByTotal(_, _)
InsertByTotal(sorted, item) ==
    IF sorted = <<>> THEN <<item>>
    ELSE IF item[2]["total"] > Head(sorted)[2]["total"]
         THEN <<item>> \o sorted
         ELSE <<Head(sorted)>> \o InsertByTotal(Tail(sorted), item)

RECURSIVE SortByTotal(_)
SortByTotal(items) ==
    IF items = <<>> THEN <<>>
    ELSE InsertByTotal(SortByTotal(SubSeq(items, 1, Len(items) - 1)), items[Len(items)])

\* member.split('@')[0].title() if '@' in member else member
DisplayName(member) ==
    Bind(PyIn("@", member), LAMBDA isEmail :
      IF ~isEmail THEN Ok(member)
      ELSE IF member[1] # "str" THEN Ok(member)
      ELSE LET at == CHOOSE i \in 1..Len(member[2]) :
                        /\ member[2][i] = "@"
                        /\ \A j \in 1..(i - 1) : member[2][j] # "@"
           IN PyTitle(JStr(SubSeq(member[2], 1, at - 1))))

\* the workload assessment of lines 480-485
Assessment(load) ==
    IF load["total"] > 10
    THEN << <<"  ", WarningSign, "  **High workload** - Consider redistributing tasks">> >>
    ELSE IF load["blocked"] > 2
    THEN << <<"  ", ConstructionSign,
              " **Multiple blockers** - Needs support unblocking tasks">> >>
    ELSE IF load["high"] > 3
    THEN << <<"  ", FireSign,
              " **Many high-priority tasks** - May need prioritization help">> >>
    ELSE <<>>

\* the loop of lines 463-487
RECURSIVE MemberLines(_)
MemberLines(sorted) ==
    IF sorted = <<>> THEN Ok(<<>>)
    ELSE
    LET member == Head(sorted)[1]
        load == Head(sorted)[2]
    IN
    Bind(DisplayName(member), LAMBDA display_name :
    Bind(MemberLines(Tail(sorted)), LAMBDA rest :
      Ok(<< <<"### ">> \o Frags(display_name),
            <<"- **Email**: ">> \o Frags(member),
            <<"- **Total Tasks**: ", ToString(load["total"])>>,
            <<"- **High Priority**: ", ToString(load["high"])>>,
            <<"- **Blocked**: ", ToString(load["blocked"])>>,
            <<"- **In Progress**: ", ToString(load["in_progress"])>>,
            <<"- **Completed**: ", ToString(load["completed"])>>,
            <<"- **Todo**: ", ToString(load["todo"])>>,
            <<>> >>
         \o Assessment(load) \o << <<>> >> \o rest)))

\* analyze_team_workload from line 410 on, tasks_data being what
\* call_mcp_tool("simpletask_get_tasks", ...) returned
WorkloadBody(project_name, tasks_data) ==
    Bind(PyIn("error", tasks_data), LAMBDA isError :
      IF isError
      THEN Bind(PyGetItem(tasks_data, "error"), LAMBDA e :
             Ok(JStr(<<"Error", " getting tasks: ">> \o Frags(e))))
      ELSE
      Bind(PyGet(tasks_data, "items", JArr(<<>>)), LAMBDA items :
        IF ~PyTruthy(items) THEN Ok(JStr(<<"No tasks found for workload analysis.">>))
        ELSE
        Bind(PyLen(items), LAMBDA total_tasks :
        Bind(PyIter(items), LAMBDA tasks :
        Bind(CountWorkload(tasks, <<>>, 0), LAMBDA counted :
        Bind(MemberLines(SortByTotal(counted[1])), LAMBDA lines :
          Ok(JStr(PyJoin(JoinSeparator,
               << <<"# Team Workload Analysis">>,
                  <<"**Total Active Tasks**: ", ToString(total_tasks)>>,
                  <<"**Unassigned Tasks**: ", ToString(counted[2]), " (">>
                     \o Percent(counted[2], total_tasks) \o <<"%)">>,
                  <<"**Data Source**: aitistra.com API">>,
                  <<>>,
                  <<"## Individual Workloads:">>,
                  <<>> >> \o lines)))))))))

\* analyze_team_workload after the project switch: try block and except clause
Workload(project_name, tasks_data) ==
    TryExcept(WorkloadBody(project_name, tasks_data),
              ExceptPrefix("analyze_team_workload"))

\* the loop of lines 539-553
RECURSIVE SearchLines(_, _)
SearchLines(tasks, i) ==
    IF tasks = <<>> THEN Ok(<<>>)
    ELSE
    Bind(PyGet(Head(tasks), "title", JStr(<<"Untitled">>)), LAMBDA title :
    Bind(PyGet(Head(tasks), "status", JStr(<<"unknown">>)), LAMBDA s :
    Bind(PyTitle(s), LAMBDA status :
    Bind(PyGet(Head(tasks), "priority", JStr(<<"unknown">>)), LAMBDA p :
    Bind(PyTitle(p), LAMBDA priority :
    Bind(AssignedOf(Head(tasks)), LAMBDA assigned :
    Bind(PyGet(Head(tasks), "id", JStr(<<"unknown">>)), LAMBDA task_id :
    Bind(SearchLines(Tail(tasks), i + 1), LAMBDA rest :
      Ok(<< <<"## ", ToString(i), ". ">> \o Frags(title),
            <<"- **Status**: ">> \o Frags(status),
            <<"- **Priority**: ">> \o Frags(priority),
            <<"- **Assigned**: ">> \o Frags(assigned),
            <<"- **ID**: ">> \o Frags(task_id),
            <<>> >> \o rest)))))))))

\* search_tasks from line 522 on, search_data being what
\* call_mcp_tool("simpletask_search_tasks", ...) returned
SearchBody(query, project_name, search_data) ==
    Bind(PyIn("error", search_data), LAMBDA isError :
      IF isError
      THEN Bind(PyGetItem(search_data, "error"), LAMBDA e :
             Ok(JStr(<<"Error", " searching tasks: ">> \o Frags(e))))
      ELSE
      Bind(PyGet(search_data, "items", JArr(<<>>)), LAMBDA items :
      Bind(PyGet(search_data, "total_count", JNum(0)), LAMBDA total :
        IF ~PyTruthy(items)
        THEN Ok(JStr(<<"No tasks found matching '">> \o Frags(query) \o <<"'">>))
        ELSE
        Bind(PyLen(items), LAMBDA n :
        Bind(PyIter(items), LAMBDA tasks :
        Bind(SearchLines(tasks, 1), LAMBDA lines :
          Ok(JStr(PyJoin(JoinSeparator,
               << <<"# Search Results for '">> \o Frags(query) \o <<"'">>,
                  <<"**Found**: ">> \o Frags(total) \o <<" tasks">>,
                  <<"**Showing**: ", ToString(n), " results">>,
                  <<"**Data Source**: aitistra.com API">>,
                  <<>> >> \o lines)))))))))

\* search_tasks after the project switch: try block and except clause
Search(query, project_name, search_data) ==
    TryExcept(SearchBody(query, project_name, search_data),
              ExceptPrefix("search_tasks"))

\* lines 580-581 of get_project_info: <<"return", text>> or <<"continue">>
InfoCheck(project_data) ==
    Bind(PyIn("error", project_data), LAMBDA isError :
      IF isError
      THEN Bind(PyGetItem(project_data, "error"), LAMBDA e :
             Ok(<<"return", JStr(<<"Error", " getting project info: ">> \o Frags(e))>>))
      ELSE Ok(<<"continue">>))

\* the loop of lines 599-610
RECURSIVE ProjectLines(_, _)
ProjectLines(projects, project_name) ==
    IF projects = <<>> THEN Ok(<<>>)
    ELSE
    Bind(PyGet(Head(projects), "name", JStr(<<"Unknown">>)), LAMBDA name :
    Bind(PyGet(Head(projects), "projectName", JStr(<<"unknown">>)), LAMBDA key :
    Bind(PyGet(Head(projects), "description", JStr(<<"No description">>)), LAMBDA description :
    Bind(ProjectLines(Tail(projects), project_name), LAMBDA rest :
      LET is_current == PyTruthy(project_name) /\ project_name = key IN
      Ok(<< <<"### ">> \o Frags(name) \o <<" ">>
               \o (IF is_current THEN <<"**[CURRENT]**">> ELSE <<>>),
            <<"- **Project Key**: ">> \o Frags(key),
            <<"- **Description**: ">> \o Frags(description),
            <<>> >> \o rest)))))

\* get_project_info from line 586 on, projects_data being what
\* call_mcp_tool("simpletask_list_projects", {}) returned
InfoReportBody(project_name, projects_data) ==
    Bind(PyIn("error", projects_data), LAMBDA isError :
      IF isError
      THEN Ok(JStr(PyJoin(JoinSeparator,
                     << <<"# Project Information">>,
                        <<"**Data Source**: aitistra.com API">>,
                        <<>> >>)))
      ELSE
      Bind(PyLen(projects_data), LAMBDA n :
      Bind(PyIter(projects_data), LAMBDA projects :
      Bind(ProjectLines(projects, project_name), LAMBDA lines :
        Ok(JStr(PyJoin(JoinSeparator,
             << <<"# Project Information">>,
                <<"**Data Source**: aitistra.com API">>,
                <<>>,
                <<"## Available Projects (", ToString(n), " total):">>,
                <<>> >> \o lines)))))))

\* the except clause of get_project_info
InfoExcept(body) == TryExcept(body, ExceptPrefix("get_project_info"))

(***************************************************************************)
(* The agent and its six tools (real_agent.py lines 43-81).  The agent is  *)
(* constructed with a project name; each tool is a closure over it.  A     *)
(* call of call_mcp_tool made by a tool function returns any of the values *)
(* of ToolResults.                                                         *)
(***************************************************************************)
ProjectNames ==
    {JNull, JStr(<<>>), JStr(<<"simple_task">>), JStr(<<"Error", "Tracker">>)}
Queries == {JStr(<<"login">>), JStr(<<>>)}

\* the tools list
ExposedTools ==
    {"get_simple_task_overview", "get_blocked_tasks", "get_high_priority_tasks",
     "analyze_team_workload", "search_tasks", "get_project_info"}

\* number of parameters of the closure that wraps the tool function
ToolArity(f) == IF f = "search_tasks" THEN 1 ELSE 0

\* (mutant) get_project_info without the switch
SwitchesFirstNoInfo(f) == f \in {"analyze_team_workload", "search_tasks"}

\* the tool functions that call switch_project first
SwitchesFirst(f) == f \in {"analyze_team_workload", "search_tasks", "get_project_info"}

\* if project_name: params["project_name"] = project_name
WithProject(pairs, project_name) ==
    JObj(pairs \o (IF PyTruthy(project_name)
                   THEN << <<"project_name", project_name>> >>
                   ELSE <<>>))

\* tool_name and params of the data-fetching call of each tool function
FetchCall(f, project_name, args) ==
    CASE f = "get_simple_task_overview" ->
           <<"simpletask_get_tasks_summary",
             WithProject(<< <<"limit", JNum(100)>>, <<"offset", JNum(0)>>,
                            <<"include_full_data", JBool(FALSE)>> >>, project_name)>>
      [] f = "get_blocked_tasks" ->
           <<"simpletask_get_tasks_by_status",
             WithProject(<< <<"status", JStr(<<"blocked">>)>>, <<"limit", JNum(50)>>,
                            <<"offset", JNum(0)>>,
                            <<"include_full_data", JBool(TRUE)>> >>, project_name)>>
      [] f = "get_high_priority_tasks" ->
           <<"simpletask_get_tasks_by_priority",
             WithProject(<< <<"priority", JStr(<<"high">>)>>, <<"limit", JNum(25)>>,
                            <<"offset", JNum(0)>>,
                            <<"include_full_data", JBool(TRUE)>> >>, project_name)>>
      [] f = "analyze_team_workload" ->
           <<"simpletask_get_tasks",
             JObj(<< <<"limit", JNum(200)>>, <<"offset", JNum(0)>>,
                     <<"include_full_data", JBool(TRUE)>> >>)>>
      [] f = "search_tasks" ->
           <<"simpletask_search_tasks",
             JObj(<< <<"query", args[1]>>, <<"limit", JNum(25)>>,
                     <<"offset", JNum(0)>>,
                     <<"include_full_data", JBool(FALSE)>> >>)>>
      [] f = "get_project_info" ->
           <<"simpletask_get_project_info", JObj(<<>>)>>

\* the call of call_mcp_tool made by switch_project
SwitchCallOf(project_name) ==
    <<"simpletask_switch_project", JObj(<< <<"project_identifier", project_name>> >>)>>

\* what a tool function does with the result r of its data-fetching call:
\* <<"return", v>>, <<"raise", e>> or, for get_project_info, <<"continue">>
AfterFetch(f, project_name, args, r) ==
    CASE f = "get_simple_task_overview" -> Overview(project_name, r)
      [] f = "get_blocked_tasks" -> Blocked(project_name, r)
      [] f = "get_high_priority_tasks" -> HighPriority(project_name, r)
      [] f = "analyze_team_workload" -> Workload(project_name, r)
      [] f = "search_tasks" -> Search(args[1], project_name, r)
      [] f = "get_project_info" ->
           IF InfoCheck(r)[1] = "ok" THEN InfoCheck(r)[2] ELSE InfoExcept(InfoCheck(r))

\* the results with one sparse task in the shape tool function f reads: a
\* payload in the MCP response format, or the task list itself
SparseResults(f) ==
    CASE f \in {"get_simple_task_overview", "get_blocked_tasks",
                "get_high_priority_tasks"} ->
           {McpContent(JText(TaskList(JArr(<<t>>), JNum(1)))) : t \in SparseTasks}
      [] f \in {"analyze_team_workload", "search_tasks"} ->
           {TaskList(JArr(<<t>>), JNum(1)) : t \in SparseTasks}
      [] OTHER -> {}

\* what the data-fetching call of tool function f may return
FetchResults(f) ==
    ToolResults \cup SparseResults(f) \cup
    (IF f = "get_high_priority_tasks" THEN OrderedPayloads ELSE {}) \cup
    (IF f = "analyze_team_workload" THEN WorkloadResults ELSE {})

\* RealSimpleTaskAgent(project_name=p)
AgentInit(p) ==
    /\ tpc = "new"
    /\ tpc' = "idle"
    /\ tproject' = p
    /\ UNCHANGED <<tfun, targs, tlog, tswitch, tdata, tout>>
    /\ UNCHANGED <<bvars, rvars, mvars>>

\* the agent runtime calls tool f with the arguments args
Invoke(f, args) ==
    /\ tpc \in {"idle", "done"}
    /\ Len(args) = ToolArity(f)
    /\ tfun' = f
    /\ targs' = args
    /\ tlog' = <<>>
    /\ tswitch' = NoValue
    /\ tdata' = NoValue
    /\ tout' = NoValue
    /\ tpc' = IF SwitchesFirst(f) /\ PyTruthy(tproject) THEN "switch" ELSE "fetch"
    /\ UNCHANGED tproject
    /\ UNCHANGED <<bvars, rvars, mvars>>

\* switch_result = switch_project(project_name), the bridge returning r;
\* if "Error" in switch_result: return
SwitchCall(r) ==
    /\ tpc = "switch"
    /\ tlog' = Append(tlog, SwitchCallOf(tproject))
    /\ tswitch' = r
    /\ LET call == SwitchProject(tproject, r)
           switch_result == call[2]
       IN
       IF call[1] = "raise"
       THEN /\ tpc' = "done"
            /\ tout' = TryExcept(call, ExceptPrefix(tfun))
       ELSE IF SwitchFailed(switch_result)
       THEN /\ tpc' = "done"
            /\ tout' = <<"return", SwitchFailure(switch_result)>>
       ELSE /\ tpc' = "fetch"
            /\ tout' = tout
    /\ UNCHANGED <<tproject, tfun, targs, tdata>>
    /\ UNCHANGED <<bvars, rvars, mvars>>

\* the data-fetching call, the bridge returning r, and the rest of the
\* function (get_project_info goes on to list the projects)
FetchCallReturns(r) ==
    /\ tpc = "fetch"
    /\ tlog' = Append(tlog, FetchCall(tfun, tproject, targs))
    /\ tdata' = r
    /\ LET after == AfterFetch(tfun, tproject, targs, r) IN
       IF after = <<"continue">>
       THEN /\ tpc' = "list"
            /\ tout' = tout
       ELSE /\ tpc' = "done"
            /\ tout' = after
    /\ UNCHANGED <<tproject, tfun, targs, tswitch>>
    /\ UNCHANGED <<bvars, rvars, mvars>>

\* projects_data = call_mcp_tool("simpletask_list_projects", {}), the bridge
\* returning r, and the report of get_project_info
ListCall(r) ==
    /\ tpc = "list"
    /\ tlog' = Append(tlog, <<"simpletask_list_projects", JObj(<<>>)>>)
    /\ tdata' = r
    /\ tpc' = "done"
    /\ tout' = InfoExcept(InfoReportBody(tproject, r))
    /\ UNCHANGED <<tproject, tfun, targs, tswitch>>
    /\ UNCHANGED <<bvars, rvars, mvars>>

NextTools ==
    \/ \E p \in ProjectNames : AgentInit(p)
    \/ \E f \in ExposedTools, q \in Queries : Invoke(f, <<>>) \/ Invoke(f, <<q>>)
    \/ \E r \in ToolResults : SwitchCall(r)
    \/ tpc = "fetch" /\ \E r \in FetchResults(tfun) : FetchCallReturns(r)
    \/ \E r \in ToolResults : ListCall(r)

SpecTools == Init /\ [][NextTools]_vars

(***************************************************************************)
(* Vocabulary of the properties of the bridge.                             *)
(***************************************************************************)
\* a call of call_mcp_tool has returned and no other call is in progress
Returned == pc = "idle" /\ calls > 0

\* the call ran the script to its end: the server closed and the script exited
Completed == Returned /\ wrapper = "exited" /\ server = "exited" /\ scanned

\* the line parses as JSON and the parsed object contains the key `result`
HasResultKey(line) ==
    /\ JSONParse(line)[1] = "ok"
    /\ HasKey(JSONParse(line)[2], "result")

ResultOf(line) == Lookup(JSONParse(line)[2], "result")

ResultLineIndexes(out) == {i \in 1..Len(out) : HasResultKey(out[i])}
JsonLineIndexes(out) == {i \in 1..Len(out) : JSONParse(out[i])[1] = "ok"}

Min(S) == CHOOSE i \in S : \A j \in S : i <= j

\* the error text of an error value contains every chunk of text
Carries(v, text) ==
    /\ HasKey(v, "error")
    /\ Lookup(v, "error")[1] = "str"
    /\ \A i \in 1..Len(text) :
          \E j \in 1..Len(Lookup(v, "error")[2]) : Lookup(v, "error")[2][j] = text[i]

\* C1: when the server exits with a non-zero code, call_mcp_tool returns an
\* error value carrying the server's stderr text and its stdout is not
\* scanned for a result line.
C1_NonZeroExitIsError ==
    (Returned /\ wrapper = "exited" /\ server = "exited" /\ code # 0)
        => (HasKey(ret, "error") /\ Carries(ret, errtext) /\ ~scanned)

\* C2: when call_mcp_tool has returned, on whatever path, no temporary
\* script file is left.
C2_NoLeftoverTempFile == Returned => tmpFiles = 0

\* C3: when the script process did not exit within the timeout, the call
\* returns the timeout error and no process started by the call is running.
C3_TimeoutLeavesNoProcess ==
    (Returned /\ wrapper = "killed")
        => (ret = TimeoutError /\ server \notin {"running", "nomodule"})

\* C4: when the first stdout line that parses as JSON is an object with a
\* `result` key holding X, the call returns X.
C4_FirstJsonLineResultReturned ==
    (Completed /\ code = 0 /\ JsonLineIndexes(output) # {}
       /\ HasResultKey(output[Min(JsonLineIndexes(output))]))
        => ret = ResultOf(output[Min(JsonLineIndexes(output))])

\* C5: when stdout holds two or more distinct JSON lines with a `result` key,
\* the call returns the result of the first of them, never a later one.
C5_FirstOfSeveralResultsReturned ==
    (Completed /\ code = 0
       /\ \E i, j \in ResultLineIndexes(output) : i < j /\ output[i] # output[j])
        => ret = ResultOf(output[Min(ResultLineIndexes(output))])

\* C6: the scan selects the first line that parses as JSON and contains a
\* `result` key, whatever value is stored under the key.
C6_ScanSelectsByKeyNotValue ==
    (wrapper = "exited" /\ scanned /\ ResultLineIndexes(output) # {})
        => wstdout = JText(ResultOf(output[Min(ResultLineIndexes(output))]))

\* C7: when no stdout line is a JSON line with a result, the call returns an
\* error value whose raw_output is the complete stdout text, unchanged.
C7_NoResultKeepsStdoutVerbatim ==
    (Completed /\ ResultLineIndexes(output) = {})
        => (HasKey(ret, "error") /\ Lookup(ret, "raw_output") = JLines(output))

C7_Witness ==
    /\ Completed
    /\ ResultLineIndexes(output) = {}
    /\ output = <<BlankLine, LogLine>>
    /\ Lookup(ret, "raw_output") = JLines(<<BlankLine, LogLine>>)

\* the four failure kinds of a call
LaunchFailed ==
    \/ wrapper = "none"
    \/ wrapper = "exited" /\ wcode # 0
    \/ errtext = <<"Cannot find module">>
TimedOut == wrapper = "killed"
NoResultFound == Completed /\ ResultLineIndexes(output) = {}
NonZeroExit == wrapper = "exited" /\ server = "exited" /\ code # 0

\* C8: each failure kind makes the call return a mapping with the key
\* "error", and a value without that key is a result of a successful run.
C8_UniformFailureValue ==
    Returned =>
        /\ (LaunchFailed \/ TimedOut \/ NoResultFound \/ NonZeroExit)
              => HasKey(ret, "error")
        /\ ~HasKey(ret, "error")
              => /\ Completed /\ code = 0
                 /\ \E i \in ResultLineIndexes(output) : ret = ResultOf(output[i])

\* A tool function has run to its end
ToolReturned == tpc = "done"

\* C9: each of the six tools exposed to the agent runtime takes zero or one
\* string argument, and every invocation that ends, whatever value each of
\* its bridge calls returned, ends by returning one string: no invocation
\* ends with an exception, and none has an outcome before it ends.
C9_ToolsReturnOneString ==
    /\ \A f \in ExposedTools : ToolArity(f) \in {0, 1}
    /\ tpc \in {"switch", "fetch", "list", "done"} =>
          /\ Len(targs) = ToolArity(tfun)
          /\ \A i \in 1..Len(targs) : IsStr(targs[i])
    /\ ToolReturned => tout[1] = "return" /\ IsStr(tout[2])
    /\ ~ToolReturned => tout = NoValue

C9_Witness ==
    /\ ToolReturned
    /\ tfun = "get_high_priority_tasks"
    /\ tdata = JNum(7)
    /\ tout = <<"return", JStr(<<"Error", " analyzing high priority tasks: ", "TypeError">>)>>

RequestNames ==
    {<<"simpletask_get_tasks">>, <<"simpletask_list_projects">>,
     <<"simpletask_search_tasks">>, <<"project", "'", "s_tasks">>}

RequestArguments ==
    {JObj(<<>>),
     JObj(<< <<"a", JNum(1)>>, <<"b", JArr(<<JBool(TRUE), JNull>>)>> >>),
     JObj(<< <<"limit", JNum(200)>>, <<"offset", JNum(0)>>,
             <<"include_full_data", JBool(TRUE)>> >>),
     JObj(<< <<"query", JStr(<<"it", "'", "s">>)>> >>),
     JObj(<< <<"project_identifier", JStr(<<"Error", "Tracker">>)>> >>),
     JObj(<< <<"filter", JObj(<< <<"tags", JArr(<<>>)>> >>)>> >>),
     JObj(<< <<"task_id", JBig(0)>> >>),
     JObj(<< <<"task_id", JBig(1)>> >>),
     JObj(<< <<"task_id", JBig(2)>> >>),
     JObj(<< <<"ids", JArr(<<JNum(7), JBig(3)>>)>> >>),
     JObj(<< <<"score", JNaN>> >>),
     JObj(<< <<"__proto__", JObj(<< <<"a", JNum(1)>> >>)>>, <<"limit", JNum(5)>> >>)}

\* call_mcp_tool(n, a) builds script_content
BuildScript(n, a) ==
    /\ rpc = "idle"
    /\ rpc' = "script"
    /\ rname' = n
    /\ rargs' = a
    /\ UNCHANGED <<rline, rparsed>>
    /\ UNCHANGED <<bvars, tvars, mvars>>

\* Node reads the script: it stops at a syntax error, or evaluates `request`
\* and writes its JSON text to the server's stdin
NodeRunsScript ==
    /\ rpc = "script"
    /\ IF JsSingleQuoted(rname) = <<"SyntaxError">>
       THEN /\ rpc' = "failed"
            /\ rline' = rline
       ELSE /\ rpc' = "written"
            /\ rline' = JSONStringify(ScriptRequest(rname, rargs))
    /\ UNCHANGED <<rname, rargs, rparsed>>
    /\ UNCHANGED <<bvars, tvars, mvars>>

\* the server, a Node program, parses the line
ServerParses ==
    /\ rpc = "written"
    /\ rpc' = "parsed"
    /\ rparsed' = JsNumbers(JSONParse(rline)[2])
    /\ UNCHANGED <<rname, rargs, rline>>
    /\ UNCHANGED <<bvars, tvars, mvars>>

NextRoundTrip ==
    \/ \E n \in RequestNames, a \in RequestArguments : BuildScript(n, a)
    \/ NodeRunsScript
    \/ ServerParses

SpecRoundTrip == Init /\ [][NextRoundTrip]_vars

(***************************************************************************)
(* main and select_project (real_agent.py lines 273-414).  A line typed by *)
(* the user is the sequence of its characters.                             *)
(***************************************************************************)
\* s.strip(): without the blanks at both ends
RECURSIVE StripLeft(_)
StripLeft(chars) ==
    IF chars # <<>> /\ Head(chars) = " " THEN StripLeft(Tail(chars)) ELSE chars

RECURSIVE StripRight(_)
StripRight(chars) ==
    IF chars # <<>> /\ chars[Len(chars)] = " "
    THEN StripRight(SubSeq(chars, 1, Len(chars) - 1))
    ELSE chars

StripChars(chars) == StripRight(StripLeft(chars))

\* s.lower(), for the letters of the lines of the model
LowerChars(chars) ==
    [i \in 1..Len(chars) |->
        CASE chars[i] = "A" -> "a"
          [] chars[i] = "L" -> "l"
          [] chars[i] = "B" -> "b"
          [] OTHER -> chars[i]]

\* int(s) for a stripped text of the model's characters: an optional sign
\* and decimal digits, anything else is a ValueError
Digits == <<"0", "1", "2", "3">>
DigitValue(c) == (CHOOSE i \in 1..Len(Digits) : Digits[i] = c) - 1
IsDigit(c) == \E i \in 1..Len(Digits) : Digits[i] = c

RECURSIVE DecimalValue(_)
DecimalValue(chars) ==
    IF chars = <<>> THEN 0
    ELSE 10 * DecimalValue(SubSeq(chars, 1, Len(chars) - 1))
         + DigitValue(chars[Len(chars)])

PyInt(chars) ==
    LET signed == chars # <<>> /\ Head(chars) \in {"-", "+"}
        digits == IF signed THEN Tail(chars) ELSE chars
    IN
    IF digits # <<>> /\ \A i \in 1..Len(digits) : IsDigit(digits[i])
    THEN Ok(IF signed /\ Head(chars) = "-"
            THEN 0 - DecimalValue(digits) ELSE DecimalValue(digits))
    ELSE Raise("ValueError")

\* the lines a user may type at the selection prompt: every line of up to
\* two characters, and the word all in several writings
ChoiceChars == {" ", "a", "l", "A", "b", "0", "1", "2", "3", "-", "."}
ChoiceLines ==
    UNION {[1..n -> ChoiceChars] : n \in 0..2}
    \cup {<<"a", "l", "l">>, <<"A", "L", "L">>, <<" ", "A", "l", "l", " ">>,
          <<"a", "l", "l", "1">>, <<" ", "2", " ">>, <<"+", "1">>}

\* what projects.json may hold
ProjectFiles ==
    {"unreadable", JArr(<<>>), JArr(<<ProjectA>>), JArr(<<ProjectA, ProjectB>>),
     JArr(<<ProjectB, JObj(<<>>), ProjectA>>)}

\* get_available_projects(): [] when the file cannot be read or parsed
GetAvailableProjects(file) == IF file = "unreadable" THEN JArr(<<>>) ELSE file

\* lines 368-377 of main, select_project having returned v: the test of
\* line 369, the construction of the agent, and the way to the first analysis
MainAfterSelect(v) ==
    /\ mselected' = v
    /\ IF v = JBool(FALSE)
       THEN /\ mpc' = "done"
            /\ magent' = magent
       ELSE /\ mpc' = "analysis"
            /\ magent' = v

\* select_project() up to its first prompt (lines 289-309)
SelectProjectStart(file) ==
    LET projects == GetAvailableProjects(file) IN
    /\ mprojects' = projects
    /\ IF ~PyTruthy(projects)
       THEN /\ mhow' = "noprojects"
            /\ MainAfterSelect(JNull)
       ELSE /\ mhow' = mhow
            /\ mpc' = "select"
            /\ UNCHANGED <<mselected, magent>>

\* lines 360-368 of main: the server path, then select_project
MainFromPath(pathOk, file) ==
    IF ~pathOk
    THEN /\ mpc' = "done"
         /\ UNCHANGED <<mprojects, mhow, mselected, magent>>
    ELSE SelectProjectStart(file)

\* main() is called: lines 331-351, and on from line 360 when the API key is set
MainStart(hasKey, pathOk, file) ==
    /\ mpc = "start"
    /\ mkey' = hasKey
    /\ mpath' = pathOk
    /\ mfile' = file
    /\ IF ~hasKey
       THEN /\ mpc' = "apikey"
            /\ UNCHANGED <<mprojects, mhow, mselected, magent>>
       ELSE MainFromPath(pathOk, file)
    /\ UNCHANGED <<mchoice, mtries, manalyses>>
    /\ UNCHANGED <<bvars, tvars, rvars>>

\* the user answers "Or enter your API key now: " (lines 351-357)
ApiKeyInput(line) ==
    /\ mpc = "apikey"
    /\ IF StripChars(line) # <<>>
       THEN /\ mkey' = TRUE
            /\ MainFromPath(mpath, mfile)
       ELSE /\ mkey' = mkey
            /\ mpc' = "done"
            /\ UNCHANGED <<mprojects, mhow, mselected, magent>>
    /\ UNCHANGED <<mpath, mfile, mchoice, mtries, manalyses>>
    /\ UNCHANGED <<bvars, tvars, rvars>>

\* Ctrl-C at the API key prompt: the KeyboardInterrupt leaves main
ApiKeyInterrupt ==
    /\ mpc = "apikey"
    /\ mpc' = "interrupted"
    /\ UNCHANGED <<mkey, mpath, mfile, mprojects, mchoice, mtries, mhow, mselected,
                   magent, manalyses>>
    /\ UNCHANGED <<bvars, tvars, rvars>>

\* the user answers the selection prompt: one turn of the loop of lines
\* 307-323, and main from line 369 on when select_project returns
SelectInput(line) ==
    /\ mpc = "select"
    /\ mtries < MaxTries
    /\ mtries' = mtries + 1
    /\ mchoice' = line
    /\ LET choice == LowerChars(StripChars(line))
           choice_num == PyInt(choice)
           n == Len(mprojects[2])
       IN
       IF choice = <<"a", "l", "l">> \/ choice = <<>>
       THEN /\ mhow' = "default"
            /\ MainAfterSelect(JNull)
       ELSE IF choice_num[1] = "raise"
       THEN UNCHANGED <<mpc, mhow, mselected, magent>>
       ELSE IF 1 <= choice_num[2] /\ choice_num[2] <= n
       THEN LET selected_project == mprojects[2][choice_num[2]] IN
            /\ mhow' = "chosen"
            /\ MainAfterSelect(PyGet(selected_project, "projectName", JNull)[2])
       ELSE UNCHANGED <<mpc, mhow, mselected, magent>>
    /\ UNCHANGED <<mkey, mpath, mfile, mprojects, manalyses>>
    /\ UNCHANGED <<bvars, tvars, rvars>>

\* Ctrl-C at the selection prompt: except KeyboardInterrupt, return None
\* (lines 324-326), and main from line 369 on
SelectInterrupt ==
    /\ mpc = "select"
    /\ mhow' = "cancelled"
    /\ MainAfterSelect(JNull)
    /\ UNCHANGED <<mkey, mpath, mfile, mprojects, mchoice, mtries, manalyses>>
    /\ UNCHANGED <<bvars, tvars, rvars>>

\* one agent.print_analysis(prompt) of lines 386, 396 and 406; an Exception
\* it raises is caught at line 408 and ends main
Analysis(raises) ==
    /\ mpc = "analysis"
    /\ manalyses' = manalyses + 1
    /\ mpc' = IF raises \/ manalyses + 1 = 3 THEN "done" ELSE "analysis"
    /\ UNCHANGED <<mkey, mpath, mfile, mprojects, mchoice, mtries, mhow, mselected,
                   magent>>
    /\ UNCHANGED <<bvars, tvars, rvars>>

NextMain ==
    \/ \E hasKey, pathOk \in BOOLEAN, file \in ProjectFiles :
          MainStart(hasKey, pathOk, file)
    \/ \E line \in {<<>>, <<" ">>, <<"s", "k">>} : ApiKeyInput(line)
    \/ ApiKeyInterrupt
    \/ \E line \in ChoiceLines : SelectInput(line)
    \/ SelectInterrupt
    \/ \E raises \in BOOLEAN : Analysis(raises)

SpecMain == Init /\ [][NextMain]_vars

\* C12: for every tool name and every JSON-serializable arguments mapping
\* passed to call_mcp_tool, the request reaches the server, and what the
\* server finds under params.arguments equals the arguments passed and
\* params.name equals the tool name passed.
C12_ArgumentsRoundTrip ==
    /\ rpc # "failed"
    /\ rpc = "parsed" =>
          /\ Lookup(Lookup(rparsed, "params"), "arguments") = rargs
          /\ Lookup(Lookup(rparsed, "params"), "name") = JStr(rname)

(***************************************************************************)
(* The request on the server's stdin.                                      *)
(***************************************************************************)
\* the text is a request envelope for tool name t and arguments p, as the
\* server parses it
IsEnvelope(text, t, p) ==
    /\ JSONParse(text)[1] = "ok"
    /\ LET env == JSONParse(text)[2] IN
       /\ Lookup(env, "jsonrpc") = JStr(<<"2.0">>)
       /\ Lookup(env, "id")[1] = "num"
       /\ Lookup(env, "method") = JStr(<<"tools/call">>)
       /\ Lookup(env, "params") = JObj(<< <<"name", JStr(<<t>>)>>, <<"arguments", p>> >>)

\* stdin has been closed
StdinClosed == stdin # <<>> /\ stdin[Len(stdin)] = StdinEnd

\* one newline-terminated envelope was written, and then stdin was closed
OneRequestThenEnd ==
    /\ Len(stdin) = 2
    /\ stdin[1][1] = "write"
    /\ IsEnvelope(stdin[1][2], tool, params)
    /\ stdin[1][3] = "\n"
    /\ stdin[2] = StdinEnd

LineBreak == "\n"

\* text.split('\n') on the fragments of a text: the lines, each by its
\* fragments
RECURSIVE SplitLines(_, _)
SplitLines(frags, line) ==
    IF frags = <<>> THEN <<line>>
    ELSE IF Head(frags) = LineBreak
         THEN <<line>> \o SplitLines(Tail(frags), <<>>)
         ELSE SplitLines(Tail(frags), Append(line, Head(frags)))

TextLines(v) == SplitLines(v[2], <<>>)

\* the task payload of an empty project, in the MCP response format
EmptyPayload == McpContent(JText(TaskList(JArr(<<>>), JNum(0))))

\* get_simple_task_overview returned its report (not an early return)
OverviewReported ==
    /\ ToolReturned
    /\ tfun = "get_simple_task_overview"
    /\ tout[1] = "return"
    /\ tout[2][2] # <<>>
    /\ tout[2][2][1] = "# Simple Task Overview"

\* C13: the overview report is a sequence of lines separated by line breaks
\* whose first line is exactly "# Simple Task Overview"; for the payload
\* {"items": [], "total_count": 0} it has a line "**Total Tasks**: 0".
C13_OverviewIsLines ==
    OverviewReported =>
        LET lines == TextLines(tout[2]) IN
        /\ lines[1] = <<"# Simple Task Overview">>
        /\ tdata = EmptyPayload =>
              \E i \in 1..Len(lines) : lines[i] = <<"**Total Tasks**: ", "0">>

(***************************************************************************)
(* The high-priority report read back: its section headers and the tasks   *)
(* listed under each.                                                      *)
(***************************************************************************)
\* the items of a task payload in the MCP response format
PayloadItems(r) == Lookup(Lookup(r, "content")[2][1], "text")[2]

\* get_high_priority_tasks returned for a payload of tasks of the pool
HighPriorityReturned ==
    /\ ToolReturned
    /\ tfun = "get_high_priority_tasks"
    /\ tdata \in OrderedPayloads
    /\ Lookup(PayloadItems(tdata), "items")[2] # <<>>

\* the section headers of a report, in order: <<title, count>>
RECURSIVE SectionHeads(_)
SectionHeads(frags) ==
    IF Len(frags) < 4 THEN <<>>
    ELSE IF frags[1] = "## "
         THEN << <<frags[2], frags[4]>> >> \o SectionHeads(Tail(frags))
         ELSE SectionHeads(Tail(frags))

\* the tasks a report lists, in order: <<title of the section, task id>>
RECURSIVE SectionEntries(_, _)
SectionEntries(frags, section) ==
    IF Len(frags) < 2 THEN <<>>
    ELSE IF frags[1] = "## "
         THEN SectionEntries(Tail(frags), frags[2])
         ELSE IF frags[1] = "** (ID: "
              THEN << <<section, frags[2]>> >> \o SectionEntries(Tail(frags), section)
              ELSE SectionEntries(Tail(frags), section)

\* the order of the sections, and the title each status is shown with
SectionOrder == <<"blocked", "todo", "in_progress", "review", "completed">>
SectionTitle(status) == TitleWord(ReplaceWord(status))

\* the tasks of the list l that have the given status, in the order of l
WithStatus(l, status) == SelectSeq(l, LAMBDA t : Lookup(t, "status") = JStr(<<status>>))

\* the headers and the entries a report on the list l should have, for the
\* statuses of SectionOrder from position i on
RECURSIVE ExpectedHeads(_, _)
ExpectedHeads(l, i) ==
    IF i > Len(SectionOrder) THEN <<>>
    ELSE LET tasks == WithStatus(l, SectionOrder[i]) IN
         (IF tasks = <<>> THEN <<>>
          ELSE << <<SectionTitle(SectionOrder[i]), ToString(Len(tasks))>> >>)
         \o ExpectedHeads(l, i + 1)

RECURSIVE ExpectedEntries(_, _)
ExpectedEntries(l, i) ==
    IF i > Len(SectionOrder) THEN <<>>
    ELSE LET tasks == WithStatus(l, SectionOrder[i]) IN
         [k \in 1..Len(tasks) |->
            <<SectionTitle(SectionOrder[i]), Lookup(tasks[k], "id")[2][1]>>]
         \o ExpectedEntries(l, i + 1)

\* C14: in the high-priority report the status sections appear in the order
\* blocked, todo, in_progress, review, completed whatever the order of the
\* input items; a section appears only for a status that has a task; and in
\* a section the tasks are listed in their order in the input.
C14_SectionsInFixedOrder ==
    HighPriorityReturned =>
        LET l == Lookup(PayloadItems(tdata), "items")[2] IN
        /\ tout[1] = "return"
        /\ SectionHeads(tout[2][2]) = ExpectedHeads(l, 1)
        /\ SectionEntries(tout[2][2], "") = ExpectedEntries(l, 1)

\* a report on five tasks given in the reverse of the section order, the
\* two blocked ones last
C14_Witness ==
    /\ HighPriorityReturned
    /\ Lookup(PayloadItems(tdata), "items")[2]
         = <<TaskDone, TaskProgress, TaskTodo, TaskBlockedToo, TaskFull>>
    /\ SectionEntries(tout[2][2], "")
         = << <<"Blocked", "t7">>, <<"Blocked", "t1">>, <<"Todo", "t2">>,
              <<"In Progress", "t3">>, <<"Completed", "t6">> >>

(***************************************************************************)
(* Task records with absent keys.                                          *)
(***************************************************************************)
\* the default stated for each key of a task record
KeyDefault(k) ==
    CASE k \in {"status", "priority", "id"} -> JStr(<<"unknown">>)
      [] k = "assigned_to" -> JStr(<<"Unassigned">>)
      [] k = "title" -> JStr(<<"Untitled">>)
      [] k \in {"description", "created_at"} -> JStr(<<>>)
      [] k = "depends_on" -> JArr(<<>>)

\* the keys of K in a fixed order
RECURSIVE KeySeq(_)
KeySeq(K) ==
    IF K = {} THEN <<>>
    ELSE LET k == CHOOSE x \in K : TRUE IN <<k>> \o KeySeq(K \ {k})

\* the record t with the default written out for each key of K it lacks
WithDefaults(t, K) ==
    LET absent == KeySeq({k \in K : ~HasKey(t, k)}) IN
    JObj(t[2] \o [i \in 1..Len(absent) |-> <<absent[i], KeyDefault(absent[i])>>])

\* the keys whose default a report shows as text; the workload analysis
\* shows no assignee per task: a task without one is counted as unassigned
ShownKeys(f) ==
    IF f = "analyze_team_workload" THEN TaskKeys \ {"assigned_to"} ELSE TaskKeys

\* the sparse task of a result, and the result with another task in its place
SparseTaskOf(r) ==
    IF HasKey(r, "items") THEN Lookup(r, "items")[2][1]
    ELSE Lookup(PayloadItems(r), "items")[2][1]

SameShape(r, t) ==
    IF HasKey(r, "items") THEN TaskList(JArr(<<t>>), JNum(1))
    ELSE McpContent(JText(TaskList(JArr(<<t>>), JNum(1))))

\* the first words of the five task reports
ReportTitles ==
    {"# Simple Task Overview", "# Blocked Tasks (", "# High Priority Tasks (",
     "# Team Workload Analysis", "# Search Results for '"}

\* a tool function returned for a result with one sparse task
SparseReturned ==
    /\ ToolReturned
    /\ tdata \in SparseResults(tfun)

\* C15: for a task record that lacks any subset of the keys id, title,
\* status, priority, assigned_to, depends_on, description, created_at, each
\* formatter returns its normal report, not an error text, and the report
\* is the one it returns for the record with the stated default written out
\* for every absent key ("unknown" for status, priority and id, "Unassigned"
\* for assigned_to, "Untitled" for title, empty for description, created_at
\* and depends_on).
C15_AbsentKeysTakeDefaults ==
    SparseReturned =>
        /\ tout[1] = "return"
        /\ tout[2][2] # <<>>
        /\ tout[2][2][1] \in ReportTitles
        /\ tout = AfterFetch(tfun, tproject, targs,
                     SameShape(tdata, WithDefaults(SparseTaskOf(tdata), ShownKeys(tfun))))

\* the blocked-tasks report for a record with no key at all
C15_Witness ==
    /\ SparseReturned
    /\ tfun = "get_blocked_tasks"
    /\ SparseTaskOf(tdata) = JObj(<<>>)
    /\ \E i \in 1..Len(tout[2][2]) : tout[2][2][i] = "Untitled"
    /\ \E i \in 1..Len(tout[2][2]) : tout[2][2][i] = "Unassigned"

(***************************************************************************)
(* The order of the bridge calls of one invocation.                        *)
(***************************************************************************)
\* the three reports that take the project by switching to it
ProjectScoped == {"analyze_team_workload", "search_tasks", "get_project_info"}

\* the positions of the switch calls and of the other bridge calls in the
\* calls the current invocation made so far
SwitchCalls == {i \in 1..Len(tlog) : tlog[i][1] = "simpletask_switch_project"}
DataCalls == {i \in 1..Len(tlog) : tlog[i][1] # "simpletask_switch_project"}

\* the failure value of the bridge: an object with the key "error"
IsErrorValue(r) == r[1] = "obj" /\ HasKey(r, "error")

\* C16: analyze_team_workload, search_tasks and get_project_info called with
\* a non-empty project name make the simpletask_switch_project call before
\* any data-fetching call and make no data-fetching call when the switch
\* call returned an error; called without a project name they make no
\* switch call at all.
C16_SwitchBeforeData ==
    tfun \in ProjectScoped =>
        /\ PyTruthy(tproject) =>
              /\ \A i \in DataCalls : \E j \in SwitchCalls : j < i
              /\ tlog # <<>> => SwitchCalls = {1}
              /\ IsErrorValue(tswitch) => DataCalls = {}
              /\ (ToolReturned /\ IsErrorValue(tswitch)) => tlog = <<SwitchCallOf(tproject)>>
        /\ ~PyTruthy(tproject) => SwitchCalls = {}

\* get_project_info with a project: the switch, then the two data calls
C16_Witness ==
    /\ ToolReturned
    /\ tfun = "get_project_info"
    /\ PyTruthy(tproject)
    /\ Len(tlog) = 3
    /\ SwitchCalls = {1}
    /\ DataCalls = {2, 3}

\* the outcome is the text "Project switch failed: ..."
ReportsSwitchFailed(out) ==
    /\ out[1] = "return"
    /\ out[2][1] = "str"
    /\ out[2][2] # <<>>
    /\ out[2][2][1] = "Project switch failed: "

\* C17: for every non-empty project name, analyze_team_workload,
\* search_tasks and get_project_info return a "Project switch failed" text
\* if and only if the simpletask_switch_project bridge call returned an
\* error value; a switch the bridge reports as successful is never treated
\* as a failure, whatever characters the project name contains.
C17_SwitchFailedIffBridgeError ==
    (ToolReturned /\ tfun \in ProjectScoped /\ PyTruthy(tproject)) =>
        (ReportsSwitchFailed(tout) <=> IsErrorValue(tswitch))

(***************************************************************************)
(* The payload shape read by the task-list reports.                        *)
(***************************************************************************)
\* successful bridge results {"content": [{"text": T}]}, T being the JSON
\* text of {"items": L, "total_count": n} with L a non-empty list of tasks
TaskPayloads ==
    {McpContent(JText(TaskList(JArr(l), JNum(Len(l))))) :
        l \in {<<TaskFull>>, <<TaskTodo, TaskFull, TaskProgress>>}}

\* the two answers that no task was found
NoTasksAnswers ==
    {"No tasks found for workload analysis.", "No tasks found matching '"}

\* C18: all task-list reports read the task list from the same payload
\* shape: for a successful bridge result {"content": [{"text": T}]} where T
\* is the JSON text of {"items": L, "total_count": n} with L non-empty,
\* analyze_team_workload and search_tasks report on the tasks of L, as the
\* overview, blocked and high-priority reports do, and do not answer that
\* no tasks were found.
C18_SamePayloadShape ==
    (/\ ToolReturned
     /\ tfun \in {"analyze_team_workload", "search_tasks"}
     /\ tdata \in TaskPayloads) =>
        /\ tout[1] = "return"
        /\ tout[2][2] # <<>>
        /\ tout[2][2][1] \notin NoTasksAnswers
        /\ tout[2][2][1] \in ReportTitles
        /\ tout = AfterFetch(tfun, tproject, targs, PayloadItems(tdata))

(***************************************************************************)
(* The counts of the high-priority report.                                 *)
(***************************************************************************)
\* get_high_priority_tasks returned its report: the title line was written
HighPriorityReported ==
    /\ ToolReturned
    /\ tfun = "get_high_priority_tasks"
    /\ tout[1] = "return"
    /\ Len(tout[2][2]) >= 3
    /\ tout[2][2][1] = "# High Priority Tasks ("

\* the number a count of the report is the text of
CountOf(text) == CHOOSE n \in 0..(2 * MaxItems) : ToString(n) = text

\* the sum of the counts of the section headers
RECURSIVE SumOfCounts(_)
SumOfCounts(heads) ==
    IF heads = <<>> THEN 0
    ELSE CountOf(Head(heads)[2]) + SumOfCounts(Tail(heads))

\* C19: in the high-priority report every input task is listed in exactly
\* one status section: for every non-empty input list the count N of the
\* header "High Priority Tasks (N found)" equals the sum of the counts of
\* the sections and equals the number of task lines, for every status a
\* task may carry (a missing status and one outside the five ordered
\* statuses included).
C19_EveryTaskInOneSection ==
    HighPriorityReported =>
        /\ CountOf(tout[2][2][2]) = SumOfCounts(SectionHeads(tout[2][2]))
        /\ CountOf(tout[2][2][2]) = Len(SectionEntries(tout[2][2], ""))

(***************************************************************************)
(* The counts of the workload analysis.                                    *)
(***************************************************************************)
\* analyze_team_workload returned its report: the title line was written
WorkloadReported ==
    /\ ToolReturned
    /\ tfun = "analyze_team_workload"
    /\ tout[1] = "return"
    /\ tout[2][2] # <<>>
    /\ tout[2][2][1] = "# Team Workload Analysis"

\* the numbers written after each occurrence of a label, in order
RECURSIVE CountsAfter(_, _)
CountsAfter(frags, label) ==
    IF Len(frags) < 2 THEN <<>>
    ELSE (IF frags[1] = label THEN <<CountOf(frags[2])>> ELSE <<>>)
         \o CountsAfter(Tail(frags), label)

RECURSIVE SumSeq(_)
SumSeq(q) == IF q = <<>> THEN 0 ELSE Head(q) + SumSeq(Tail(q))

C21_CancelEndsMain ==
    /\ mhow = "cancelled" =>
          /\ mpc = "done"
          /\ magent = NoValue
          /\ manalyses = 0
    /\ magent # NoValue => mhow \in {"chosen", "default"}

====
